---- MODULE Spec2Model ----
(***************************************************************************)
(* A model of the DOM anchoring and positioning engine of the Web Notes    *)
(* extension: selector generation and resolution with the element cache    *)
(* (dom-selectors.js), text highlights (selection-manager.js), note        *)
(* positioning and the visibility clamp (note-positioning.js), note        *)
(* display (note-display.js) and the drag controller (note-dragging.js).   *)
(*                                                                         *)
(* Each component has a specification of its own over the shared           *)
(* variables: SpecDom, SpecHl, SpecPos.  Spec is SpecDom.                  *)
(***************************************************************************)
EXTENDS Integers, Sequences, FiniteSets, TLC

(***************************************************************************)
(* Bounds of the model.                                                    *)
(***************************************************************************)
\* page elements that can ever be created below <body>
MaxElems == 2

(***************************************************************************)
(* Program constants.                                                      *)
(***************************************************************************)
CACHE_SIZE_LIMIT == 500
\* "no element": the null of querySelector, singleNodeValue, Map.get
NoElement == -1
\* document.documentElement (<html>) and document.body
DocEl == 0
Body == 1

Elems == 2..(MaxElems + 1)
AllNodes == 0..(MaxElems + 1)
Tags == {"div", "p"}
Ids == {"", "a"}
\* className strings, as the token lists className.trim().split(/\s+/) yields
ClassNames == {<<>>, <<"c">>}
\* the pages of the model put a class on <div> elements only
ClassesOf(t) == IF t = "div" THEN ClassNames ELSE {<<>>}

VARIABLES
  \* ---- the document (browser state) ----
  status,        \* node -> "unused" | "attached" | "detached"
  kids,          \* node -> sequence of child elements (parent.children)
  tag,           \* node -> tagName, lower-cased
  elId,          \* node -> id attribute ("" when absent)
  cls,           \* node -> class tokens
  \* ---- dom-selectors.js ----
  elementCache,  \* the Map, as its entries in insertion order
  anchor,        \* the selector pair last generated (a note's stored anchor)
  genFor,        \* the element it was generated for, while the document is
                 \* as it was then (NoElement after a mutation)
  last,          \* the last findElementBySelector call: [op, el, hadStale]
  \* ---- selection-manager.js ----
  targetAttached, \* document.contains(selectionData.targetElement)
  content,       \* the child nodes of the target element, as a tree
  noteHighlights, \* the Map, as its entries in insertion order
  pageText,      \* the target element's text before any highlight
  selection,     \* noteId -> the note's selectionData
  hlLast,        \* the last highlight call and what it returned
  \* ---- note-positioning.js, note-display.js ----
  win,           \* window: innerWidth, innerHeight, pageXOffset, pageYOffset
  layout,        \* element -> its box in document coordinates
  noteData,      \* the note record the page holds
  noteEl,        \* the note element: in the document or not, style.left/top, size
  displayed,     \* DisplayState.displayedNotes has the note
  dragTarget,    \* the anchor element makeDraggable was given
  visTimers,     \* ensureNoteVisibility timeouts not yet run
  lastUpdate,    \* the last update request sent to the store
  posLast,       \* the last placement call and what it did
  \* ---- note-dragging.js ----
  drag,          \* DraggingState
  listeners,     \* document has the mousemove and mouseup listeners
  userSelect,    \* document.body.style.userSelect
  dropTarget,    \* the element carrying note-drop-target
  pointer,       \* where the mouse pointer is, in client coordinates
  dragCount,     \* how many times the mouse went down on the note
  \* ---- note editing, and the store's content field ----
  edit,          \* EditingState, the textarea, pending timeouts, writes in flight
  storedContent, \* noteId -> the content the store holds
  lastContent,   \* noteId -> the content of the note's last edit or save on exit
  pageUnloaded,  \* beforeunload has run
  editLast,      \* the last editing call: what was pending, what it sent
  enterTimers,   \* enterEditMode timeouts of createNoteAtCoords not yet run
  \* ---- note-display.js: DisplayState, the store's notes, the page's URL ----
  url,           \* window.location.href
  storedNotes,   \* url -> the ids of the notes the store holds for it, in order
  displayedNotes, \* DisplayState.displayedNotes, as its entries in insertion order
  noteElements,  \* the note elements that are children of document.body
  elCount,       \* note elements made so far (the last createElement's number)
  fadeTimers,    \* the timeouts of removeNoteFromDisplay not yet run, oldest first
  load,          \* loadAndDisplayNotes: loadingNotes and where the call stands
  del,           \* handleNoteDelete: where the call stands
  navLast,       \* the last display step
  navCount,      \* URL changes and deletes so far
  currentPageNotes, \* DisplayState.currentPageNotes and window.currentPageNotes
  \* ---- selection-manager.js: sanitizeColor ----
  color,         \* the value handed to sanitizeColor, and how it was made
  colorLast,     \* the last sanitizeColor call: what it returned
  \* ---- content-main.js ----
  main,          \* MainState, and where initializeWithRetry stands
  modules,       \* the modules that are properties of window
  \* ---- timeouts against the clock ----
  resize,        \* the debounced resize handler: timeoutId, pending timeouts
  monitor        \* URLMonitorState, and the pending debounce timeouts

domVars == <<status, kids, tag, elId, cls>>
selVars == <<elementCache, anchor, genFor, last>>
hlVars == <<targetAttached, content, noteHighlights, pageText, selection, hlLast>>
posVars == <<win, layout, noteData, noteEl, displayed, dragTarget, visTimers,
            lastUpdate, posLast>>
dragVars == <<drag, listeners, userSelect, dropTarget, pointer, dragCount>>
editVars == <<edit, storedContent, lastContent, pageUnloaded, editLast, enterTimers>>
navVars == <<url, storedNotes, displayedNotes, noteElements, elCount, fadeTimers,
            load, del, navLast, navCount, currentPageNotes>>
colorVars == <<color, colorLast>>
mainVars == <<main, modules>>
timeVars == <<resize, monitor>>
restVars == <<navVars, colorVars, mainVars, timeVars>>
appVars == <<editVars, restVars>>
notDomVars == <<hlVars, posVars, dragVars, appVars>>
notHlVars == <<domVars, selVars, posVars, dragVars, appVars>>
vars == <<domVars, selVars, hlVars, posVars, dragVars, appVars>>

(***************************************************************************)
(* The document tree.                                                      *)
(***************************************************************************)
Attached == {n \in AllNodes : status[n] = "attached"}

\* document.contains(node)
Contains(n) == n \in AllNodes /\ status[n] = "attached"

IndexIn(s, n) == CHOOSE i \in 1..Len(s) : s[i] = n

IsChildOf(n, p) == \E i \in 1..Len(kids[p]) : kids[p][i] = n

\* element.parentElement, for an attached element other than <html>
Parent(n) == CHOOSE p \in AllNodes : IsChildOf(n, p)

\* position of n among all element children of its parent, from 1
ChildIndex(n) == IF n = DocEl THEN 1 ELSE IndexIn(kids[Parent(n)], n)

\* position of n among the children of its parent with its tag, from 1
SameTagIndex(n) ==
  IF n = DocEl THEN 1
  ELSE LET s == kids[Parent(n)]
       IN Cardinality({i \in 1..ChildIndex(n) : tag[s[i]] = tag[n]})

\* number of children of n's parent with n's tag
SameTagCount(n) ==
  IF n = DocEl THEN 1
  ELSE LET s == kids[Parent(n)]
       IN Cardinality({i \in 1..Len(s) : tag[s[i]] = tag[n]})


RECURSIVE Preorder(_), PreorderSeq(_)
Preorder(n) == <<n>> \o PreorderSeq(kids[n])
PreorderSeq(s) == IF s = <<>> THEN <<>> ELSE Preorder(Head(s)) \o PreorderSeq(Tail(s))

\* the elements of the document in document order
DocOrder == Preorder(DocEl)

RECURSIVE Subtree(_), SubtreeSeq(_)
Subtree(n) == {n} \cup SubtreeSeq(kids[n])
SubtreeSeq(s) == IF s = <<>> THEN {} ELSE Subtree(Head(s)) \cup SubtreeSeq(Tail(s))

(***************************************************************************)
(* Selectors.  A CSS selector is the sequence of its compound steps, which *)
(* the code joins with " > "; an XPath is the sequence of its tag[index]   *)
(* segments, which the code joins with "/" behind "//".  The empty         *)
(* sequence is the code's null (path.length > 0 ? ... : null).             *)
(***************************************************************************)
Take(s, k) == IF Len(s) <= k THEN s ELSE SubSeq(s, 1, k)

\* the match a browser computes for one compound step: tag, #id, .classes,
\* :nth-child(n) (n counts ALL element children of the parent)
CssStepMatches(n, st) ==
  /\ tag[n] = st.tag
  /\ (st.id = "" \/ elId[n] = st.id)
  /\ \A i \in 1..Len(st.classes) : \E j \in 1..Len(cls[n]) : cls[n][j] = st.classes[i]
  /\ (st.nth = 0 \/ ChildIndex(n) = st.nth)

\* steps 1..k of css, joined by the child combinator, end at n
RECURSIVE CssMatches(_, _, _)
CssMatches(n, css, k) ==
  /\ CssStepMatches(n, css[k])
  /\ (k = 1 \/ (n # DocEl /\ CssMatches(Parent(n), css, k - 1)))

\* document.querySelector(css): the first match in document order
querySelector(css) ==
  LET m == SelectSeq(DocOrder, LAMBDA n : CssMatches(n, css, Len(css)))
  IN IF m = <<>> THEN NoElement ELSE Head(m)

\* tag[idx]: the idx-th child with that tag
RECURSIVE XPathMatches(_, _, _)
XPathMatches(n, xp, k) ==
  /\ tag[n] = xp[k].tag
  /\ SameTagIndex(n) = xp[k].idx
  /\ (k = 1 \/ (n # DocEl /\ XPathMatches(Parent(n), xp, k - 1)))

\* document.evaluate(xpath, document, null, FIRST_ORDERED_NODE_TYPE).singleNodeValue
evaluateXPath(xp) ==
  LET m == SelectSeq(DocOrder, LAMBDA n : XPathMatches(n, xp, Len(xp)))
  IN IF m = <<>> THEN NoElement ELSE Head(m)

\* the paths hold only tag names and indices, which safeXPathPattern admits
\* but for a ':' in a tag name
validateXPath(xp) ==
  /\ xp # <<>>
  /\ \A k \in 1..Len(xp) : xp[k].tag \notin {"o:p"}

isIdUnique(id) ==
  /\ id # ""
  /\ Cardinality({n \in Attached : elId[n] = id}) = 1

isValidCSSClass(c) == c \in {"c"}

validClasses(n) == Take(SelectSeq(cls[n], isValidCSSClass), 3)

RECURSIVE generateCSSSelector(_)
generateCSSSelector(element) ==
  IF element = NoElement \/ element = DocEl THEN <<>>
  ELSE IF isIdUnique(elId[element])
  THEN <<[tag |-> tag[element], id |-> elId[element], classes |-> <<>>, nth |-> 0]>>
  ELSE generateCSSSelector(Parent(element)) \o
       <<[tag |-> tag[element], id |-> "", classes |-> validClasses(element),
          nth |-> IF SameTagCount(element) > 1 THEN SameTagIndex(element) ELSE 0]>>

RECURSIVE generateRobustCSSSelector(_)
generateRobustCSSSelector(element) ==
  IF element = NoElement \/ element = DocEl THEN <<>>
  ELSE generateRobustCSSSelector(Parent(element)) \o
       <<[tag |-> tag[element], id |-> "", classes |-> <<>>, nth |-> ChildIndex(element)]>>

RECURSIVE generateXPath(_)
generateXPath(element) ==
  IF element = NoElement \/ element = DocEl THEN <<>>
  ELSE generateXPath(Parent(element)) \o
       <<[tag |-> tag[element], idx |-> SameTagIndex(element)]>>

\* tag names that are no CSS type selector: the code puts tagName into
\* the selector unescaped, and "o:p" reads as type o with pseudo-class :p
InvalidTypeSelectors == {"o:p"}

\* document.querySelector(css) throws a SyntaxError
SyntaxError(css) == \E k \in 1..Len(css) : css[k].tag \in InvalidTypeSelectors

generateOptimalSelector(element) ==
  IF element = NoElement THEN [css |-> <<>>, xpath |-> <<>>]
  ELSE LET css == generateCSSSelector(element)
           xpath == generateXPath(element)
           robustCSS == generateRobustCSSSelector(element)
       IN IF css # <<>> /\ SyntaxError(css)
          THEN [css |-> <<>>, xpath |-> <<>>]
          ELSE IF css # <<>> /\ querySelector(css) = element
          THEN [css |-> css, xpath |-> xpath]
          ELSE IF validateXPath(xpath) /\ evaluateXPath(xpath) = element
          THEN [css |-> <<>>, xpath |-> xpath]
          ELSE IF robustCSS # <<>> /\ querySelector(robustCSS) = element
          THEN [css |-> robustCSS, xpath |-> xpath]
          ELSE [css |-> css, xpath |-> xpath]

(***************************************************************************)
(* The element cache: a Map, kept as its entries in insertion order.       *)
(***************************************************************************)
\* `${selector.css || ''}_${selector.xpath || ''}`
cacheKey(selector) == <<selector.css, selector.xpath>>

CacheHas(cache, key) == \E i \in 1..Len(cache) : cache[i].key = key

CacheGet(cache, key) == cache[CHOOSE i \in 1..Len(cache) : cache[i].key = key].el

CacheDelete(cache, key) == SelectSeq(cache, LAMBDA e : e.key # key)

\* Map.set: a present key keeps its place
CacheSet(cache, key, el) ==
  IF CacheHas(cache, key)
  THEN [i \in 1..Len(cache) |-> IF cache[i].key = key THEN [key |-> key, el |-> el] ELSE cache[i]]
  ELSE Append(cache, [key |-> key, el |-> el])

\* cacheElement that evicts only once the cache is over the limit
cacheElement_OverLimit(cache, key, element) ==
  LET entriesToRemove == (CACHE_SIZE_LIMIT * 25) \div 100
      kept == IF Len(cache) > CACHE_SIZE_LIMIT
              THEN SubSeq(cache, entriesToRemove + 1, Len(cache))
              ELSE cache
  IN CacheSet(kept, key, element)

cacheElement(cache, key, element) ==
  LET entriesToRemove == (CACHE_SIZE_LIMIT * 25) \div 100
      kept == IF Len(cache) >= CACHE_SIZE_LIMIT
              THEN SubSeq(cache, entriesToRemove + 1, Len(cache))
              ELSE cache
  IN CacheSet(kept, key, element)

\* findElementBySelector with the cache deleted from it: what a lookup finds
\* in the document as it is now
\* a lookup in which an error of querySelector ends the lookup: the outer
\* catch returns null
lookupInDocument_NoCatch(selector) ==
  LET byCss == IF selector.css # <<>> THEN querySelector(selector.css) ELSE NoElement
      byXPath == IF validateXPath(selector.xpath) THEN evaluateXPath(selector.xpath)
                 ELSE NoElement
  IN IF selector.css # <<>> /\ SyntaxError(selector.css) THEN NoElement
     ELSE IF byCss # NoElement THEN byCss ELSE byXPath

lookupInDocument(selector) ==
  LET byCss == IF selector.css # <<>> /\ ~SyntaxError(selector.css)
               THEN querySelector(selector.css) ELSE NoElement
      byXPath == IF validateXPath(selector.xpath) THEN evaluateXPath(selector.xpath)
                 ELSE NoElement
  IN IF byCss # NoElement THEN byCss ELSE byXPath

\* findElementBySelector serving a cached element without document.contains
findElementBySelector_NoContains(cache, selector) ==
  LET key == cacheKey(selector)
      element == lookupInDocument(selector)
  IN IF CacheHas(cache, key)
     THEN [el |-> CacheGet(cache, key), cache |-> cache]
     ELSE IF element # NoElement
     THEN [el |-> element, cache |-> cacheElement(cache, key, element)]
     ELSE [el |-> NoElement, cache |-> cache]

\* the element returned and the cache left behind
findElementBySelector(cache, selector) ==
  LET key == cacheKey(selector)
      has == CacheHas(cache, key)
      cachedElement == IF has THEN CacheGet(cache, key) ELSE NoElement
      cache1 == IF has THEN CacheDelete(cache, key) ELSE cache
      element == lookupInDocument(selector)
  IN IF has /\ cachedElement # NoElement /\ Contains(cachedElement)
     THEN [el |-> cachedElement, cache |-> cache]
     ELSE IF element # NoElement
     THEN [el |-> element, cache |-> cacheElement(cache1, key, element)]
     ELSE [el |-> NoElement, cache |-> cache1]

(***************************************************************************)
(* Text highlights (selection-manager.js).  The target element's content   *)
(* is a tree of text nodes and highlight wrappers; strings are sequences   *)
(* of characters.                                                          *)
(***************************************************************************)
\* length of the target element's text
MaxTextLen == 3
\* characters of context captured on each side of a selection
CONTEXT_LENGTH == 50
\* highlight <span> elements there can be at a time
MaxWrappers == 3
MAX_HIGHLIGHTS == 1000

Chars == {"a", "b"}
NoteIds == {"n1", "n2"}
WrapperIds == 1..MaxWrappers

RECURSIVE SeqsOf(_)
SeqsOf(k) == IF k = 0 THEN {<<>>}
             ELSE {Append(s, c) : s \in SeqsOf(k - 1), c \in Chars}

Max(a, b) == IF a >= b THEN a ELSE b
Min(a, b) == IF a <= b THEN a ELSE b

TextNode(d) == [type |-> "text", data |-> d, el |-> 0, noteId |-> "", kids |-> <<>>]
\* a highlight wrapper: element el, made for note noteId
SpanNode(w, n, ks) == [type |-> "span", data |-> <<>>, el |-> w, noteId |-> n, kids |-> ks]

\* node.textContent of a list of sibling nodes
RECURSIVE TextOf(_)
TextOf(nodes) ==
  IF nodes = <<>> THEN <<>>
  ELSE (IF Head(nodes).type = "text" THEN Head(nodes).data
        ELSE TextOf(Head(nodes).kids)) \o TextOf(Tail(nodes))

\* the wrappers below the target element
RECURSIVE Wrappers(_)
Wrappers(nodes) ==
  IF nodes = <<>> THEN {}
  ELSE (IF Head(nodes).type = "span"
        THEN {[el |-> Head(nodes).el, noteId |-> Head(nodes).noteId]}
             \cup Wrappers(Head(nodes).kids)
        ELSE {}) \cup Wrappers(Tail(nodes))

WrappersOf(nodes, n) == {w \in Wrappers(nodes) : w.noteId = n}

\* the text nodes in document order (TreeWalker, SHOW_TEXT), as paths of
\* child indexes
RECURSIVE TextPaths(_, _, _)
TextPaths(nodes, i, prefix) ==
  IF i > Len(nodes) THEN <<>>
  ELSE (IF nodes[i].type = "text" THEN <<Append(prefix, i)>>
        ELSE TextPaths(nodes[i].kids, 1, Append(prefix, i)))
       \o TextPaths(nodes, i + 1, prefix)

RECURSIVE NodeAt(_, _)
NodeAt(nodes, path) ==
  IF Len(path) = 1 THEN nodes[path[1]]
  ELSE NodeAt(nodes[path[1]].kids, Tail(path))

\* the children of the node at path (of the target element for <<>>)
KidsAt(nodes, path) == IF path = <<>> THEN nodes ELSE NodeAt(nodes, path).kids

\* String.prototype.includes and indexOf
Includes(s, t) == \E i \in 1..(Len(s) - Len(t) + 1) : SubSeq(s, i, i + Len(t) - 1) = t
indexOf(s, t) ==
  IF Includes(s, t)
  THEN (CHOOSE i \in 1..(Len(s) - Len(t) + 1) :
          /\ SubSeq(s, i, i + Len(t) - 1) = t
          /\ \A j \in 1..(i - 1) : SubSeq(s, j, j + Len(t) - 1) # t) - 1
  ELSE -1

NotFound == [found |-> FALSE, path |-> <<>>, position |-> -1]

findTextInElement(nodes, text, contextBefore, contextAfter) ==
  LET paths == TextPaths(nodes, 1, <<>>)
      fullContext == contextBefore \o text \o contextAfter
      Hit(k) == LET nodeText == NodeAt(nodes, paths[k]).data
                IN Includes(nodeText, fullContext) \/ Includes(nodeText, text)
  IN IF \A k \in 1..Len(paths) : ~Hit(k) THEN NotFound
     ELSE LET k == CHOOSE k \in 1..Len(paths) : Hit(k) /\ \A j \in 1..(k - 1) : ~Hit(j)
              nodeText == NodeAt(nodes, paths[k]).data
          IN [found |-> TRUE, path |-> paths[k],
              position |-> IF Includes(nodeText, fullContext)
                           THEN indexOf(nodeText, fullContext) + Len(contextBefore)
                           ELSE indexOf(nodeText, text)]

findTextOffset(nodeText, text, contextBefore) ==
  IF contextBefore # <<>> /\ indexOf(nodeText, contextBefore \o text) # -1
  THEN indexOf(nodeText, contextBefore \o text) + Len(contextBefore)
  ELSE indexOf(nodeText, text)

\* the tree with the node at path replaced by the nodes given
RECURSIVE ReplaceAt(_, _, _)
ReplaceAt(nodes, path, new) ==
  LET i == path[1] IN
  IF Len(path) = 1
  THEN SubSeq(nodes, 1, i - 1) \o new \o SubSeq(nodes, i + 1, Len(nodes))
  ELSE [nodes EXCEPT ![i].kids = ReplaceAt(@, Tail(path), new)]

\* range.extractContents(); range.insertNode(highlight);
\* highlight.appendChild(extracted): the text node is split at the offset,
\* both parts staying (empty or not), the wrapper between them
insertHighlight(nodes, path, offset, length, w, n) ==
  LET d == NodeAt(nodes, path).data IN
  ReplaceAt(nodes, path,
    << TextNode(SubSeq(d, 1, offset)),
       SpanNode(w, n, <<TextNode(SubSeq(d, offset + 1, offset + length))>>),
       TextNode(SubSeq(d, offset + length + 1, Len(d))) >>)

\* Node.normalize() on the parent of the nodes given
RECURSIVE normalize(_)
normalize(nodes) ==
  IF nodes = <<>> THEN <<>>
  ELSE LET h == Head(nodes)
           rest == normalize(Tail(nodes))
       IN IF h.type = "span" THEN <<[h EXCEPT !.kids = normalize(h.kids)]>> \o rest
          ELSE IF h.data = <<>> THEN rest
          ELSE IF rest # <<>> /\ rest[1].type = "text"
               THEN <<TextNode(h.data \o rest[1].data)>> \o Tail(rest)
          ELSE <<h>> \o rest

RECURSIVE normalizeAt(_, _)
normalizeAt(nodes, parentPath) ==
  IF parentPath = <<>> THEN normalize(nodes)
  ELSE [nodes EXCEPT ![parentPath[1]].kids = normalizeAt(@, Tail(parentPath))]

\* where the wrapper element w is below the target element; <<>> when it
\* is not there
RECURSIVE WrapperPath(_, _, _, _)
WrapperPath(nodes, i, prefix, w) ==
  IF i > Len(nodes) THEN <<>>
  ELSE IF nodes[i].type = "span" /\ nodes[i].el = w THEN Append(prefix, i)
  ELSE LET inner == IF nodes[i].type = "span"
                    THEN WrapperPath(nodes[i].kids, 1, Append(prefix, i), w)
                    ELSE <<>>
       IN IF inner # <<>> THEN inner ELSE WrapperPath(nodes, i + 1, prefix, w)

ParentPath(path) == SubSeq(path, 1, Len(path) - 1)

HasHighlight(hl, noteId) == \E i \in 1..Len(hl) : hl[i].noteId = noteId
GetHighlight(hl, noteId) == hl[CHOOSE i \in 1..Len(hl) : hl[i].noteId = noteId]
DeleteHighlight(hl, noteId) == SelectSeq(hl, LAMBDA e : e.noteId # noteId)
\* Map.set: a present key keeps its place
SetHighlight(hl, noteId, w, text) ==
  LET rec == [noteId |-> noteId, element |-> w, originalText |-> text] IN
  IF HasHighlight(hl, noteId)
  THEN [i \in 1..Len(hl) |-> IF hl[i].noteId = noteId THEN rec ELSE hl[i]]
  ELSE Append(hl, rec)

\* removeTextHighlight without the parent's normalize()
removeTextHighlight_NoNormalize(nodes, hl, noteId) ==
  IF ~HasHighlight(hl, noteId)
  THEN [ok |-> FALSE, content |-> nodes, noteHighlights |-> hl]
  ELSE LET path == WrapperPath(nodes, 1, <<>>, GetHighlight(hl, noteId).element)
       IN [ok |-> TRUE,
           content |-> IF path = <<>> THEN nodes
                       ELSE ReplaceAt(nodes, path,
                                      <<TextNode(TextOf(NodeAt(nodes, path).kids))>>),
           noteHighlights |-> DeleteHighlight(hl, noteId)]

\* removeTextHighlight(noteId).  A wrapper that left the document inside
\* another wrapper still has a parent node, so it is replaced there and
\* the document stays as it is.
removeTextHighlight(nodes, hl, noteId) ==
  IF ~HasHighlight(hl, noteId)
  THEN [ok |-> FALSE, content |-> nodes, noteHighlights |-> hl]
  ELSE LET path == WrapperPath(nodes, 1, <<>>, GetHighlight(hl, noteId).element)
       IN [ok |-> TRUE,
           content |-> IF path = <<>> THEN nodes
                       ELSE normalizeAt(
                              ReplaceAt(nodes, path,
                                        <<TextNode(TextOf(NodeAt(nodes, path).kids))>>),
                              ParentPath(path)),
           noteHighlights |-> DeleteHighlight(hl, noteId)]

\* removeTextHighlight for the first count entries, oldest first
RECURSIVE removeOldest(_, _, _)
removeOldest(nodes, hl, count) ==
  IF count = 0 \/ hl = <<>> THEN [content |-> nodes, noteHighlights |-> hl]
  ELSE LET r == removeTextHighlight(nodes, hl, hl[1].noteId)
       IN removeOldest(r.content, r.noteHighlights, count - 1)

\* cleanupHighlights removing the first half of the excess
cleanupHighlights_HalfOfExcess(nodes, hl) ==
  IF Len(hl) > MAX_HIGHLIGHTS
  THEN removeOldest(nodes, hl, (Len(hl) - MAX_HIGHLIGHTS) \div 2)
  ELSE [content |-> nodes, noteHighlights |-> hl]

cleanupHighlights(nodes, hl) ==
  IF Len(hl) > MAX_HIGHLIGHTS
  THEN removeOldest(nodes, hl, Len(hl) - MAX_HIGHLIGHTS)
  ELSE [content |-> nodes, noteHighlights |-> hl]

\* createTextHighlight without removing the note's earlier highlight
createTextHighlight_NoRemove(nodes, hl, attached, note, w) ==
  LET failed == [ok |-> FALSE, content |-> nodes, noteHighlights |-> hl]
      textNode == findTextInElement(nodes, note.text,
                                    note.contextBefore, note.contextAfter)
  IN IF note.text = <<>> THEN failed
     ELSE IF ~attached THEN failed
     ELSE IF ~textNode.found THEN failed
     ELSE LET nodeText == NodeAt(nodes, textNode.path).data
              textOffset == findTextOffset(nodeText, note.text, note.contextBefore)
          IN IF textOffset = -1 THEN failed
             ELSE LET wrapped == insertHighlight(nodes, textNode.path, textOffset,
                                                 Len(note.text), w, note.id)
                      c == cleanupHighlights(wrapped,
                             SetHighlight(hl, note.id, w, note.text))
                  IN [ok |-> TRUE, content |-> c.content,
                      noteHighlights |-> c.noteHighlights]

\* createTextHighlight(note); w is the <span> createHighlightSpan makes
createTextHighlight(nodes, hl, attached, note, w) ==
  IF note.text = <<>>
  THEN [ok |-> FALSE, content |-> nodes, noteHighlights |-> hl]
  ELSE
  LET removed == removeTextHighlight(nodes, hl, note.id)
      failed == [ok |-> FALSE, content |-> removed.content,
                 noteHighlights |-> removed.noteHighlights]
      textNode == findTextInElement(removed.content, note.text,
                                    note.contextBefore, note.contextAfter)
  IN IF ~attached THEN failed
     ELSE IF ~textNode.found THEN failed
     ELSE LET nodeText == NodeAt(removed.content, textNode.path).data
              textOffset == findTextOffset(nodeText, note.text, note.contextBefore)
          IN IF textOffset = -1 THEN failed
             ELSE LET wrapped == insertHighlight(removed.content, textNode.path, textOffset,
                                                 Len(note.text), w, note.id)
                      c == cleanupHighlights(wrapped,
                             SetHighlight(removed.noteHighlights, note.id, w,
                                          note.text))
                  IN [ok |-> TRUE, content |-> c.content,
                      noteHighlights |-> c.noteHighlights]

\* clearAllHighlights(): every entry removed in map order, then clear()
clearAllHighlights(nodes, hl) ==
  [content |-> removeOldest(nodes, hl, Len(hl)).content, noteHighlights |-> <<>>]

\* getTextContext(node, offset, length) on a text node's text
getTextContext(text, offset, length) ==
  IF length < 0
  THEN SubSeq(text, Max(0, offset + length) + 1, offset)
  ELSE SubSeq(text, offset + 1, Min(Len(text), offset + length))

\* the text node holding the pos-th character of the nodes' text, and the
\* character's place in it
RECURSIVE Locate(_, _, _)
Locate(nodes, i, pos) ==
  IF pos <= Len(nodes[i].data) THEN [node |-> i, offset |-> pos]
  ELSE Locate(nodes, i + 1, pos - Len(nodes[i].data))

\* a note made without a text selection
NoSelection == [text |-> <<>>, contextBefore |-> <<>>, contextAfter |-> <<>>]

\* captureSelectionData for the user's selection of length characters from
\* character start (0-based) of the text nodes given
captureSelectionData(nodes, start, length) ==
  LET s == Locate(nodes, 1, start + 1)
      e == Locate(nodes, 1, start + length)
  IN [text |-> SubSeq(TextOf(nodes), start + 1, start + length),
      contextBefore |-> getTextContext(nodes[s.node].data, s.offset - 1, -CONTEXT_LENGTH),
      contextAfter |-> getTextContext(nodes[e.node].data, e.offset, CONTEXT_LENGTH)]

NoHlCall == [op |-> "none", noteId |-> "", ok |-> FALSE,
             again |-> FALSE, inDoc |-> FALSE, parent |-> <<>>]

\* nothing highlighted, no target element
InitHlIdle ==
  /\ targetAttached = FALSE
  /\ content = <<>>
  /\ noteHighlights = <<>>
  /\ pageText = <<>>
  /\ selection = [n \in NoteIds |-> NoSelection]
  /\ hlLast = NoHlCall


(***************************************************************************)
(* Note placement (note-positioning.js, note-display.js).  Lengths are     *)
(* whole pixels; a note element is absolutely positioned from the          *)
(* document origin, so its style.left/top are document coordinates.        *)
(***************************************************************************)
DEFAULT_OFFSET_X == 10
DEFAULT_OFFSET_Y == 10
MIN_VIEWPORT_MARGIN == 20
\* where displayNote puts a note it could not position
FALLBACK_X == 50
FALLBACK_Y == 50
\* a field a record does not have (undefined) and a field set to null
Absent == -1000
Null == -1001

Nullish(v) == v = Absent \/ v = Null
Falsy(v) == Nullish(v) \/ v = 0
\* a ?? b
Coalesce(a, b) == IF Nullish(a) THEN b ELSE a
\* a || b
OrElse(a, b) == IF Falsy(a) THEN b ELSE a

\* element.getBoundingClientRect(): the box r of the document, seen from
\* the window w
getBoundingClientRect(r, w) ==
  [left |-> r.left - w.scrollX, top |-> r.top - w.scrollY,
   width |-> r.width, height |-> r.height,
   right |-> r.left - w.scrollX + r.width,
   bottom |-> r.top - w.scrollY + r.height]

\* the box of the note element
NoteBox(el) == [left |-> el.left, top |-> el.top, width |-> el.width, height |-> el.height]

IsAnchored(data) == data.cssSelector # <<>> \/ data.xpath # <<>>
SelectorOf(data) == [css |-> data.cssSelector, xpath |-> data.xpath]

\* the update requests sent to the store: updateNote(url, id, fields);
\* keys are the fields the request carries
NoRequest ==
  [kind |-> "none", keys |-> {}, cssSelector |-> <<>>, xpath |-> <<>>,
   offsetX |-> Absent, offsetY |-> Absent, x |-> Absent, y |-> Absent]

\* updateNoteOffset(noteId, newOffsetX, newOffsetY)
updateNoteOffset(newOffsetX, newOffsetY) ==
  [NoRequest EXCEPT !.kind = "offset", !.keys = {"offsetX", "offsetY"},
                    !.offsetX = newOffsetX, !.offsetY = newOffsetY]

\* const v = ...; the rest of a function body reads v
Then(v, Rest(_)) == Rest(v)

NoPosition == [ok |-> FALSE, x |-> 0, y |-> 0]

\* calculateNotePosition with || for the default offsets
calculateNotePosition_OrDefault(data, targetElement, lay, w) ==
  IF targetElement = NoElement \/ ~Contains(targetElement) THEN NoPosition
  ELSE LET targetRect == getBoundingClientRect(lay[targetElement], w)
           offsetX == OrElse(data.offsetX, DEFAULT_OFFSET_X)
           offsetY == OrElse(data.offsetY, DEFAULT_OFFSET_Y)
       IN [ok |-> TRUE, x |-> targetRect.left + w.scrollX + offsetX,
           y |-> targetRect.top + w.scrollY + offsetY]

calculateNotePosition(data, targetElement, lay, w) ==
  IF targetElement = NoElement \/ ~Contains(targetElement) THEN NoPosition
  ELSE LET targetRect == getBoundingClientRect(lay[targetElement], w)
           offsetX == Coalesce(data.offsetX, DEFAULT_OFFSET_X)
           offsetY == Coalesce(data.offsetY, DEFAULT_OFFSET_Y)
       IN [ok |-> TRUE, x |-> targetRect.left + w.scrollX + offsetX,
           y |-> targetRect.top + w.scrollY + offsetY]

\* positionNoteAtCoords: x = coords.x || coords.pageX || 0; the visibility
\* check it schedules is counted by the caller
positionNoteAtCoords(el, cx, cy) ==
  [el EXCEPT !.left = OrElse(cx, OrElse(Absent, 0)),
             !.top = OrElse(cy, OrElse(Absent, 0))]

\* ensureNoteVisibility measuring against the closed band's complement
\* with >= and <=
ensureNoteVisibility_Inclusive(el, data, cache, lay, w) ==
  IF ~el.inDocument THEN [el |-> el, cache |-> cache, request |-> NoRequest]
  ELSE
  LET rect == getBoundingClientRect(NoteBox(el), w)
      overRight == rect.right >= w.width - MIN_VIEWPORT_MARGIN
      overLeft == ~overRight /\ rect.left <= MIN_VIEWPORT_MARGIN
      overBottom == rect.bottom >= w.height - MIN_VIEWPORT_MARGIN
      overTop == ~overBottom /\ rect.top <= MIN_VIEWPORT_MARGIN
      newLeft == IF overRight
                 THEN w.width - rect.width - MIN_VIEWPORT_MARGIN + w.scrollX
                 ELSE IF overLeft THEN MIN_VIEWPORT_MARGIN + w.scrollX ELSE el.left
      newTop == IF overBottom
                THEN w.height - rect.height - MIN_VIEWPORT_MARGIN + w.scrollY
                ELSE IF overTop THEN MIN_VIEWPORT_MARGIN + w.scrollY ELSE el.top
      adjusted == overRight \/ overLeft \/ overBottom \/ overTop
      found == findElementBySelector(cache, SelectorOf(data))
  IN IF ~adjusted THEN [el |-> el, cache |-> cache, request |-> NoRequest]
     ELSE IF ~IsAnchored(data)
     THEN [el |-> [el EXCEPT !.left = newLeft, !.top = newTop],
           cache |-> cache, request |-> NoRequest]
     ELSE [el |-> [el EXCEPT !.left = newLeft, !.top = newTop],
           cache |-> found.cache,
           request |->
             IF found.el = NoElement THEN NoRequest
             ELSE LET targetRect == getBoundingClientRect(lay[found.el], w)
                  IN updateNoteOffset(newLeft - (targetRect.left + w.scrollX),
                                      newTop - (targetRect.top + w.scrollY))]

\* ensureNoteVisibility forgetting the page's scroll offset
ensureNoteVisibility_NoScroll(el, data, cache, lay, w) ==
  IF ~el.inDocument THEN [el |-> el, cache |-> cache, request |-> NoRequest]
  ELSE
  LET rect == getBoundingClientRect(NoteBox(el), w)
      overRight == rect.right > w.width - MIN_VIEWPORT_MARGIN
      overLeft == ~overRight /\ rect.left < MIN_VIEWPORT_MARGIN
      overBottom == rect.bottom > w.height - MIN_VIEWPORT_MARGIN
      overTop == ~overBottom /\ rect.top < MIN_VIEWPORT_MARGIN
      newLeft == IF overRight
                 THEN w.width - rect.width - MIN_VIEWPORT_MARGIN
                 ELSE IF overLeft THEN MIN_VIEWPORT_MARGIN ELSE el.left
      newTop == IF overBottom
                THEN w.height - rect.height - MIN_VIEWPORT_MARGIN
                ELSE IF overTop THEN MIN_VIEWPORT_MARGIN ELSE el.top
      adjusted == overRight \/ overLeft \/ overBottom \/ overTop
      found == findElementBySelector(cache, SelectorOf(data))
  IN IF ~adjusted THEN [el |-> el, cache |-> cache, request |-> NoRequest]
     ELSE IF ~IsAnchored(data)
     THEN [el |-> [el EXCEPT !.left = newLeft, !.top = newTop],
           cache |-> cache, request |-> NoRequest]
     ELSE [el |-> [el EXCEPT !.left = newLeft, !.top = newTop],
           cache |-> found.cache,
           request |->
             IF found.el = NoElement THEN NoRequest
             ELSE LET targetRect == getBoundingClientRect(lay[found.el], w)
                  IN updateNoteOffset(newLeft - (targetRect.left + w.scrollX),
                                      newTop - (targetRect.top + w.scrollY))]

\* ensureNoteVisibility(noteElement, noteData): the element as it leaves
\* it, the cache, and the offset update it requests
ensureNoteVisibility(el, data, cache, lay, w) ==
  IF ~el.inDocument THEN [el |-> el, cache |-> cache, request |-> NoRequest]
  ELSE
  LET rect == getBoundingClientRect(NoteBox(el), w)
      overRight == rect.right > w.width - MIN_VIEWPORT_MARGIN
      overLeft == ~overRight /\ rect.left < MIN_VIEWPORT_MARGIN
      overBottom == rect.bottom > w.height - MIN_VIEWPORT_MARGIN
      overTop == ~overBottom /\ rect.top < MIN_VIEWPORT_MARGIN
      \* offsetLeft and offsetTop unless an edge is over
      newLeft == IF overRight
                 THEN w.width - rect.width - MIN_VIEWPORT_MARGIN + w.scrollX
                 ELSE IF overLeft THEN MIN_VIEWPORT_MARGIN + w.scrollX ELSE el.left
      newTop == IF overBottom
                THEN w.height - rect.height - MIN_VIEWPORT_MARGIN + w.scrollY
                ELSE IF overTop THEN MIN_VIEWPORT_MARGIN + w.scrollY ELSE el.top
      adjusted == overRight \/ overLeft \/ overBottom \/ overTop
      found == findElementBySelector(cache, SelectorOf(data))
  IN IF ~adjusted THEN [el |-> el, cache |-> cache, request |-> NoRequest]
     ELSE IF ~IsAnchored(data)
     THEN [el |-> [el EXCEPT !.left = newLeft, !.top = newTop],
           cache |-> cache, request |-> NoRequest]
     ELSE [el |-> [el EXCEPT !.left = newLeft, !.top = newTop],
           cache |-> found.cache,
           request |->
             IF found.el = NoElement THEN NoRequest
             ELSE LET targetRect == getBoundingClientRect(lay[found.el], w)
                  IN updateNoteOffset(newLeft - (targetRect.left + w.scrollX),
                                      newTop - (targetRect.top + w.scrollY))]

\* positionNote(noteElement, noteData): anchor first, stored x/y second;
\* timers counts the visibility checks scheduled
positionNote(el, data, cache, lay, w) ==
  LET found == IF IsAnchored(data) THEN findElementBySelector(cache, SelectorOf(data))
               ELSE [el |-> NoElement, cache |-> cache]
      position == calculateNotePosition(data, found.el, lay, w)
  IN IF found.el # NoElement /\ position.ok
     THEN [positioned |-> TRUE, how |-> "anchor", target |-> found.el,
           el |-> positionNoteAtCoords(el, position.x, position.y),
           cache |-> found.cache, timers |-> 1]
     ELSE IF data.x # Absent /\ data.y # Absent
     THEN [positioned |-> TRUE, how |-> "absolute", target |-> NoElement,
           el |-> positionNoteAtCoords(el, data.x, data.y),
           cache |-> found.cache, timers |-> 1]
     ELSE [positioned |-> FALSE, how |-> "none", target |-> NoElement,
           el |-> el, cache |-> found.cache, timers |-> 0]

\* addNoteCapabilities: the anchor element handed to makeDraggable
addNoteCapabilities(data, cache) ==
  IF IsAnchored(data) THEN findElementBySelector(cache, SelectorOf(data))
  ELSE [el |-> NoElement, cache |-> cache]

\* displayNote leaving out a note it could not position
displayNote_HideUnpositioned(data, el, isDisplayed, cache, lay, w) ==
  IF isDisplayed
  THEN [el |-> el, displayed |-> TRUE, cache |-> cache, how |-> "skipped",
        target |-> NoElement, dragTarget |-> NoElement, timers |-> 0]
  ELSE
  Then(positionNote([el EXCEPT !.inDocument = FALSE], data, cache, lay, w), LAMBDA p :
  Then(addNoteCapabilities(data, p.cache), LAMBDA caps :
    IF ~p.positioned
    THEN [el |-> el, displayed |-> FALSE, cache |-> p.cache, how |-> "hidden",
          target |-> NoElement, dragTarget |-> NoElement, timers |-> 0]
    ELSE [el |-> [p.el EXCEPT !.inDocument = TRUE], displayed |-> TRUE,
          cache |-> caps.cache, how |-> p.how, target |-> p.target,
          dragTarget |-> caps.el, timers |-> p.timers]))

\* displayNote(noteData) for a note made without a text selection
displayNote(data, el, isDisplayed, cache, lay, w) ==
  IF isDisplayed
  THEN [el |-> el, displayed |-> TRUE, cache |-> cache, how |-> "skipped",
        target |-> NoElement, dragTarget |-> NoElement, timers |-> 0]
  ELSE
  Then(positionNote([el EXCEPT !.inDocument = FALSE], data, cache, lay, w), LAMBDA p :
  Then(addNoteCapabilities(data, p.cache), LAMBDA caps :
    [el |-> [(IF p.positioned THEN p.el
              ELSE positionNoteAtCoords(p.el, FALLBACK_X, FALLBACK_Y))
             EXCEPT !.inDocument = TRUE],
     displayed |-> TRUE,
     cache |-> caps.cache,
     how |-> IF p.positioned THEN p.how ELSE "default",
     target |-> p.target, dragTarget |-> caps.el,
     timers |-> IF p.positioned THEN p.timers ELSE 1]))

\* repositionAllNotes() with the one note of the page
repositionAllNotes(data, el, cache, lay, w) ==
  IF ~el.inDocument
  THEN [el |-> el, cache |-> cache, target |-> NoElement, timers |-> 0]
  ELSE
  LET found == IF IsAnchored(data) THEN findElementBySelector(cache, SelectorOf(data))
               ELSE [el |-> NoElement, cache |-> cache]
      newPosition == calculateNotePosition(data, found.el, lay, w)
  IN [el |-> IF found.el # NoElement /\ newPosition.ok
             THEN [el EXCEPT !.left = newPosition.x, !.top = newPosition.y]
             ELSE el,
      cache |-> found.cache, target |-> found.el, timers |-> 1]

NoPosCall == [op |-> "none", target |-> NoElement, how |-> "", ran |-> FALSE,
              beforeLeft |-> 0, beforeTop |-> 0, requested |-> FALSE,
              wasDragging |-> FALSE]

(***************************************************************************)
(* Dragging (note-dragging.js).  Pointer positions are client             *)
(* coordinates.                                                            *)
(***************************************************************************)
DRAG_THRESHOLD == 5
SCROLL_ZONE_SIZE == 50
SCROLL_SPEED == 5
\* canAnchorToElement: smallest width and height of an anchor
MIN_ANCHOR_SIZE == 10

PreferredTags == {"p", "h1", "h2", "h3", "h4", "h5", "h6", "li", "div", "section", "article"}

Inside(px, py, rect) ==
  /\ rect.left <= px /\ px < rect.right
  /\ rect.top <= py /\ py < rect.bottom

\* document.elementsFromPoint without the note elements, bottom-most first
PageElementsAt(px, py, lay, w) ==
  SelectSeq(DocOrder, LAMBDA n : Inside(px, py, getBoundingClientRect(lay[n], w)))

\* getElementUnderCursor: elementFromPoint with the dragged note hidden
getElementUnderCursor(px, py, lay, w) ==
  LET hits == PageElementsAt(px, py, lay, w)
  IN IF hits = <<>> THEN NoElement ELSE hits[Len(hits)]

canAnchorToElement(element, lay, w) ==
  /\ element # NoElement
  /\ getBoundingClientRect(lay[element], w).width >= MIN_ANCHOR_SIZE
  /\ getBoundingClientRect(lay[element], w).height >= MIN_ANCHOR_SIZE
  /\ tag[element] \in PreferredTags

\* findNearestAnchorElement(event, draggedNote); a note element among
\* elementsFromPoint is never anchorable and is left out
findNearestAnchorElement(px, py, lay, w) ==
  LET elementUnderCursor == getElementUnderCursor(px, py, lay, w) IN
  IF canAnchorToElement(elementUnderCursor, lay, w) THEN elementUnderCursor
  ELSE IF elementUnderCursor = NoElement THEN NoElement
  ELSE LET rect == getBoundingClientRect(lay[elementUnderCursor], w)
           elements == PageElementsAt(rect.left + rect.width \div 2,
                                      rect.top + rect.height \div 2, lay, w)
           ok == {i \in 1..Len(elements) : canAnchorToElement(elements[i], lay, w)}
       IN IF ok = {} THEN NoElement
          ELSE elements[CHOOSE i \in ok : \A j \in ok : j <= i]

\* startDrag(event, noteElement, noteData, targetElement)
startDrag(el, targetElement, cx, cy, w) ==
  LET noteRect == getBoundingClientRect(NoteBox(el), w) IN
  [isDragging |-> FALSE, draggedNote |-> TRUE, targetElement |-> targetElement,
   initialMousePos |-> [x |-> cx, y |-> cy],
   initialNotePos |-> [x |-> noteRect.left + w.scrollX, y |-> noteRect.top + w.scrollY],
   dragOffsetX |-> cx - noteRect.left, dragOffsetY |-> cy - noteRect.top]

\* Math.sqrt(deltaX * deltaX + deltaY * deltaY) > DRAG_THRESHOLD, on whole
\* pixels
ExceedsThreshold(deltaX, deltaY) ==
  deltaX * deltaX + deltaY * deltaY > DRAG_THRESHOLD * DRAG_THRESHOLD

\* window.scrollBy: the browser keeps the offset inside the page
ScrollBy(w, dx, dy, lay) ==
  [w EXCEPT !.scrollX = Max(0, Min(lay[DocEl].width - w.width, w.scrollX + dx)),
            !.scrollY = Max(0, Min(lay[DocEl].height - w.height, w.scrollY + dy))]

\* handleAutoScroll(event)
handleAutoScroll(el, w, lay, cx, cy) ==
  LET scrollX == IF cx < SCROLL_ZONE_SIZE THEN -SCROLL_SPEED
                 ELSE IF cx > w.width - SCROLL_ZONE_SIZE THEN SCROLL_SPEED ELSE 0
      scrollY == IF cy < SCROLL_ZONE_SIZE THEN -SCROLL_SPEED
                 ELSE IF cy > w.height - SCROLL_ZONE_SIZE THEN SCROLL_SPEED ELSE 0
  IN IF scrollX # 0 \/ scrollY # 0
     THEN [el |-> [el EXCEPT !.left = el.left + scrollX, !.top = el.top + scrollY],
           win |-> ScrollBy(w, scrollX, scrollY, lay)]
     ELSE [el |-> el, win |-> w]

\* handleMouseMove(event)
handleMouseMove(d, el, w, lay, drop, cx, cy) ==
  LET deltaX == cx - d.initialMousePos.x
      deltaY == cy - d.initialMousePos.y
      moved == [el EXCEPT !.left = d.initialNotePos.x + deltaX,
                          !.top = d.initialNotePos.y + deltaY]
      scrolled == handleAutoScroll(moved, w, lay, cx, cy)
      under == getElementUnderCursor(cx, cy, lay, scrolled.win)
  IN IF ~d.draggedNote THEN [drag |-> d, el |-> el, win |-> w, dropTarget |-> drop]
     ELSE IF ~d.isDragging /\ ~ExceedsThreshold(deltaX, deltaY)
     THEN [drag |-> d, el |-> el, win |-> w, dropTarget |-> drop]
     ELSE [drag |-> [d EXCEPT !.isDragging = TRUE], el |-> scrolled.el,
           win |-> scrolled.win,
           dropTarget |-> IF canAnchorToElement(under, lay, scrolled.win)
                          THEN under ELSE NoElement]

\* anchorNoteToElement(noteElement, noteData, anchorElement)
anchorNoteToElement(el, anchorElement, lay, w) ==
  LET selectors == generateOptimalSelector(anchorElement)
      noteRect == getBoundingClientRect(NoteBox(el), w)
      anchorRect == getBoundingClientRect(lay[anchorElement], w)
  IN IF selectors.css = <<>> /\ selectors.xpath = <<>> THEN NoRequest
     ELSE [NoRequest EXCEPT
             !.kind = "anchor",
             !.keys = {"cssSelector", "xpath", "offsetX", "offsetY"},
             !.cssSelector = selectors.css, !.xpath = selectors.xpath,
             !.offsetX = (noteRect.left + w.scrollX) - (anchorRect.left + w.scrollX),
             !.offsetY = (noteRect.top + w.scrollY) - (anchorRect.top + w.scrollY)]

\* updateAnchoredNoteOffset(noteElement, noteData, targetElement, finalX, finalY)
updateAnchoredNoteOffset(targetElement, finalX, finalY, lay, w) ==
  LET targetRect == getBoundingClientRect(lay[targetElement], w)
  IN updateNoteOffset(finalX - (targetRect.left + w.scrollX),
                      finalY - (targetRect.top + w.scrollY))

\* updateFreeFloatingNote(noteData, finalX, finalY)
updateFreeFloatingNote(finalX, finalY) ==
  [NoRequest EXCEPT
     !.kind = "absolute",
     !.keys = {"x", "y", "cssSelector", "xpath", "offsetX", "offsetY"},
     !.x = finalX, !.y = finalY, !.offsetX = Null, !.offsetY = Null]

\* finishDrag without the timeout for ensureNoteVisibility
finishDrag_NoVisibility(d, el, lay, w, px, py) ==
  LET finalRect == getBoundingClientRect(NoteBox(el), w)
      finalX == finalRect.left + w.scrollX
      finalY == finalRect.top + w.scrollY
      newAnchor == findNearestAnchorElement(px, py, lay, w)
  IN IF newAnchor # NoElement /\ newAnchor # d.targetElement
     THEN [how |-> "anchor", target |-> newAnchor, timers |-> 0,
           request |-> anchorNoteToElement(el, newAnchor, lay, w)]
     ELSE IF d.targetElement # NoElement
     THEN [how |-> "offset", target |-> d.targetElement, timers |-> 0,
           request |-> updateAnchoredNoteOffset(d.targetElement, finalX, finalY, lay, w)]
     ELSE [how |-> "absolute", target |-> NoElement, timers |-> 0,
           request |-> updateFreeFloatingNote(finalX, finalY)]

\* finishDrag(event): the update requested, the branch taken and the
\* timeouts set for ensureNoteVisibility
finishDrag(d, el, lay, w, px, py) ==
  LET finalRect == getBoundingClientRect(NoteBox(el), w)
      finalX == finalRect.left + w.scrollX
      finalY == finalRect.top + w.scrollY
      newAnchor == findNearestAnchorElement(px, py, lay, w)
  IN IF newAnchor # NoElement /\ newAnchor # d.targetElement
     THEN [how |-> "anchor", target |-> newAnchor, timers |-> 1,
           request |-> anchorNoteToElement(el, newAnchor, lay, w)]
     ELSE IF d.targetElement # NoElement
     THEN [how |-> "offset", target |-> d.targetElement, timers |-> 1,
           request |-> updateAnchoredNoteOffset(d.targetElement, finalX, finalY, lay, w)]
     ELSE [how |-> "absolute", target |-> NoElement, timers |-> 1,
           request |-> updateFreeFloatingNote(finalX, finalY)]

\* the record createNoteAtCoords(noteNumber, coords) builds; coords come
\* from handleContextMenu ({x, y, target}, no offsets) or from Ctrl+Alt+N
createNoteAtCoords(noteId, coords) ==
  LET selectors == IF coords.target # NoElement /\ coords.target # Body
                   THEN generateOptimalSelector(coords.target)
                   ELSE [css |-> <<>>, xpath |-> <<>>]
      anchored == selectors.css # <<>> \/ selectors.xpath # <<>>
  IN [id |-> noteId, x |-> coords.x, y |-> coords.y,
      cssSelector |-> selectors.css, xpath |-> selectors.xpath,
      offsetX |-> IF anchored THEN OrElse(coords.offsetX, 0) ELSE Absent,
      offsetY |-> IF anchored THEN OrElse(coords.offsetY, 0) ELSE Absent]

\* DraggingState after clearDraggingState()
IdleDrag ==
  [isDragging |-> FALSE, draggedNote |-> FALSE, targetElement |-> NoElement,
   initialMousePos |-> [x |-> 0, y |-> 0], initialNotePos |-> [x |-> 0, y |-> 0],
   dragOffsetX |-> 0, dragOffsetY |-> 0]

\* clearDraggingState that resets the state of a started drag only
clearDraggingState_OnlyStarted(d) == IF d.isDragging THEN IdleDrag ELSE d

\* clearDraggingState()
clearDraggingState(d) == IdleDrag

NoNote == [id |-> "", cssSelector |-> <<>>, xpath |-> <<>>,
           offsetX |-> Absent, offsetY |-> Absent, x |-> Absent, y |-> Absent]

\* no window, no note
InitPosIdle ==
  /\ win = [width |-> 0, height |-> 0, scrollX |-> 0, scrollY |-> 0]
  /\ layout = [n \in AllNodes |-> [left |-> 0, top |-> 0, width |-> 0, height |-> 0]]
  /\ noteData = NoNote
  /\ noteEl = [inDocument |-> FALSE, left |-> 0, top |-> 0, width |-> 0, height |-> 0]
  /\ displayed = FALSE
  /\ dragTarget = NoElement
  /\ visTimers = 0
  /\ lastUpdate = NoRequest
  /\ posLast = NoPosCall
  /\ drag = IdleDrag
  /\ listeners = FALSE
  /\ userSelect = ""
  /\ dropTarget = NoElement
  /\ pointer = [x |-> 0, y |-> 0]
  /\ dragCount = 0


(***************************************************************************)
(* Editing (note editing module, src/unnamed/part_000).  The edit state    *)
(* is the record [editing, textarea, timeouts, timers, writes]: the note   *)
(* in edit mode ("" for none), textarea.value, the autosaveTimeouts Map    *)
(* (0 for no entry), the browser's pending auto-save timeouts in firing    *)
(* order, and the updateNote calls in flight.                              *)
(***************************************************************************)
MaxSaveTimers == 2
MaxWrites == 1

NoNoteId == ""
\* noteData.content of the notes on the page, as they were loaded
OriginalContent == ""
EditContents == {"a", "b"}
TimerIds == 1..(MaxSaveTimers + 1)

\* clearTimeout(id)
clearTimeout(timers, id) == SelectSeq(timers, LAMBDA t : t.id # id)

\* the id setTimeout returns: one no pending timeout and no Map entry holds
setTimeoutId(e) ==
  CHOOSE id \in TimerIds :
    /\ \A i \in 1..Len(e.timers) : e.timers[i].id # id
    /\ \A n \in NoteIds : e.timeouts[n] # id
    /\ \A other \in TimerIds :
         (/\ \A i \in 1..Len(e.timers) : e.timers[i].id # other
          /\ \A n \in NoteIds : e.timeouts[n] # other) => id <= other

CanSetTimeout(e) ==
  \E id \in TimerIds :
    /\ \A i \in 1..Len(e.timers) : e.timers[i].id # id
    /\ \A n \in NoteIds : e.timeouts[n] # id

\* exitEditMode(noteElement, save)
exitEditMode(e, noteId, save) ==
  IF noteId \notin e.editors THEN e
  ELSE IF save
  THEN [e EXCEPT !.writes = Append(e.writes, [noteId |-> noteId, content |-> e.textarea,
                                              timer |-> FALSE]),
                 !.timers = IF e.timeouts[noteId] # 0
                            THEN clearTimeout(e.timers, e.timeouts[noteId])
                            ELSE e.timers,
                 !.timeouts[noteId] = 0,
                 !.editors = @ \ {noteId},
                 !.editing = NoNoteId, !.textarea = ""]
  ELSE [e EXCEPT !.editors = @ \ {noteId}, !.editing = NoNoteId, !.textarea = ""]

\* enterEditMode without the exit of the note being edited
enterEditMode_NoExit(e, noteId) ==
  [e EXCEPT !.editing = noteId, !.editors = @ \cup {noteId},
            !.textarea = OriginalContent]

\* enterEditMode(noteElement, noteData)
enterEditMode(e, noteId) ==
  [(IF e.editing # NoNoteId THEN exitEditMode(e, e.editing, TRUE) ELSE e)
   EXCEPT !.editing = noteId, !.editors = @ \cup {noteId},
          !.textarea = OriginalContent]

\* autoSaveNote(noteElement, noteData, content), up to the timeout it sets
autoSaveNote(e, noteId, text) ==
  [e EXCEPT !.timers = Append(IF e.timeouts[noteId] # 0
                              THEN clearTimeout(e.timers, e.timeouts[noteId])
                              ELSE e.timers,
                              [id |-> setTimeoutId(e), noteId |-> noteId, content |-> text]),
            !.timeouts[noteId] = setTimeoutId(e)]

\* the timeout of autoSaveNote runs: it calls updateNote and awaits it
autoSaveTimeout(e) ==
  [e EXCEPT !.timers = Tail(e.timers),
            !.writes = Append(e.writes, [noteId |-> Head(e.timers).noteId,
                                         content |-> Head(e.timers).content,
                                         timer |-> TRUE])]

\* updateNote resolves: what follows the await in the caller
afterUpdateNote(e) ==
  [e EXCEPT !.writes = Tail(e.writes),
            !.timeouts[Head(e.writes).noteId] =
               IF Head(e.writes).timer THEN 0 ELSE e.timeouts[Head(e.writes).noteId]]

\* handleEditKeydown: Ctrl+Enter saves and exits, Escape exits
handleEditKeydown(e, key) ==
  IF key = "Ctrl+Enter" THEN exitEditMode(e, e.editing, TRUE)
  ELSE IF key = "Escape" THEN exitEditMode(e, e.editing, FALSE)
  ELSE e

\* handleVisibilityChange with document.hidden
handleVisibilityChange(e) ==
  IF e.editing # NoNoteId THEN exitEditMode(e, e.editing, TRUE) ELSE e

\* handleBeforeUnload
handleBeforeUnload(e) ==
  LET exited == IF e.editing # NoNoteId THEN exitEditMode(e, e.editing, TRUE) ELSE e
  IN [exited EXCEPT !.timers =
        SelectSeq(exited.timers, LAMBDA t : \A n \in NoteIds : exited.timeouts[n] # t.id)]

\* editing is currentlyEditingNote; editors are the notes whose element has
\* _editingElements, a textarea and a toolbar
IdleEdit ==
  [editing |-> NoNoteId, editors |-> {}, textarea |-> "", timeouts |-> [n \in NoteIds |-> 0],
   timers |-> <<>>, writes |-> <<>>]

NoEditCall == [op |-> "none", noteId |-> NoNoteId, pending |-> {}, sent |-> {}]

\* nothing is being edited
InitEditIdle ==
  /\ edit = IdleEdit
  /\ storedContent = [n \in NoteIds |-> OriginalContent]
  /\ lastContent = [n \in NoteIds |-> OriginalContent]
  /\ pageUnloaded = FALSE
  /\ editLast = NoEditCall
  /\ enterTimers = 0

(***************************************************************************)
(* The notes on display (note-display.js).  displayedNotes is the Map as   *)
(* its entries [noteId, el]; a note element is named by the number of its  *)
(* createElement call.                                                     *)
(***************************************************************************)
Urls == {"u1", "u2"}
NoUrl == ""

\* DisplayState.displayedNotes.has(noteId) and .get(noteId)
Tracked(dn, noteId) == \E i \in 1..Len(dn) : dn[i].noteId = noteId
ElementOf(dn, noteId) == dn[CHOOSE i \in 1..Len(dn) : dn[i].noteId = noteId].el
\* DisplayState.displayedNotes.delete(noteId)
Untrack(dn, noteId) == SelectSeq(dn, LAMBDA e : e.noteId # noteId)

\* removeNoteFromDisplay(noteId): the fade-out timeouts it leaves pending;
\* the timeout keeps the element it saw
removeNoteFromDisplay(dn, timers, noteId) ==
  IF ~Tracked(dn, noteId) THEN timers
  ELSE Append(timers, [noteId |-> noteId, el |-> ElementOf(dn, noteId)])

RECURSIVE removeAllFromDisplay(_, _, _)
removeAllFromDisplay(dn, timers, i) ==
  IF i > Len(dn) THEN timers
  ELSE removeAllFromDisplay(dn, removeNoteFromDisplay(dn, timers, dn[i].noteId), i + 1)

\* clearAllDisplayedNotes()
clearAllDisplayedNotes(dn, timers, nodes, hl) ==
  LET cleared == clearAllHighlights(nodes, hl)
  IN [timers |-> removeAllFromDisplay(dn, timers, 1),
      content |-> cleared.content,
      noteHighlights |-> cleared.noteHighlights,
      displayedNotes |-> <<>>,
      currentPageNotes |-> <<>>]

IdleLoad == [loadingNotes |-> FALSE, pc |-> "idle", url |-> NoUrl, queue |-> <<>>]
IdleDelete == [pc |-> "idle", noteId |-> NoNoteId, url |-> NoUrl]
NoNavCall == [op |-> "none", noteId |-> NoNoteId]

\* nothing on display, nothing loading
InitNavIdle ==
  /\ url = NoUrl
  /\ storedNotes = [u \in Urls |-> <<>>]
  /\ displayedNotes = <<>>
  /\ noteElements = {}
  /\ elCount = 0
  /\ fadeTimers = <<>>
  /\ load = IdleLoad
  /\ del = IdleDelete
  /\ navLast = NoNavCall
  /\ navCount = 0
  /\ currentPageNotes = <<>>

(***************************************************************************)
(* sanitizeColor (selection-manager.js).  A string is the sequence of its  *)
(* characters; a value is [type, chars], chars being empty for a value     *)
(* that is no string.                                                      *)
(***************************************************************************)
DEFAULT_COLOR == <<"#", "f", "f", "f", "3", "c", "d">>

DigitChars == <<"0", "1", "2", "3", "4", "5", "6", "7", "8", "9">>
Digits == {DigitChars[i] : i \in 1..10}
UpperChars == <<"A", "B", "C", "D", "E", "F", "G", "H", "I", "J", "K", "L", "M",
                "N", "O", "P", "Q", "R", "S", "T", "U", "V", "W", "X", "Y", "Z">>
LowerChars == <<"a", "b", "c", "d", "e", "f", "g", "h", "i", "j", "k", "l", "m",
                "n", "o", "p", "q", "r", "s", "t", "u", "v", "w", "x", "y", "z">>
\* [0-9A-Fa-f]
HexChars == Digits \cup {UpperChars[i] : i \in 1..6} \cup {LowerChars[i] : i \in 1..6}
\* \s, as far as the inputs go
WhiteSpace == {" ", "\t"}

\* String.prototype.toLowerCase
toLowerCase(chars) ==
  [i \in 1..Len(chars) |->
     IF \E k \in 1..26 : UpperChars[k] = chars[i]
     THEN LowerChars[CHOOSE k \in 1..26 : UpperChars[k] = chars[i]]
     ELSE chars[i]]

\* parseInt of a run of digits
RECURSIVE parseInt(_)
parseInt(digits) ==
  IF digits = <<>> THEN 0
  ELSE 10 * parseInt(SubSeq(digits, 1, Len(digits) - 1))
       + (CHOOSE d \in 0..9 : DigitChars[d + 1] = digits[Len(digits)])

RECURSIVE Pow10(_)
Pow10(k) == IF k = 0 THEN 1 ELSE 10 * Pow10(k - 1)

\* how many characters of chars, from index i on, are in set
RECURSIVE RunLength(_, _, _)
RunLength(chars, i, set) ==
  IF i > Len(chars) \/ chars[i] \notin set THEN 0
  ELSE 1 + RunLength(chars, i + 1, set)

StartsWith(chars, prefix) ==
  Len(chars) >= Len(prefix) /\ SubSeq(chars, 1, Len(prefix)) = prefix

\* /^#([0-9A-Fa-f]{3}|[0-9A-Fa-f]{6})$/
hexPattern(chars) ==
  /\ Len(chars) \in {4, 7}
  /\ chars[1] = "#"
  /\ \A i \in 2..Len(chars) : chars[i] \in HexChars

\* \s*(\d{1,3})\s* from index i, k times with a comma between: the groups
\* matched and the index of the character after the last \s*
RECURSIVE matchChannels(_, _, _)
matchChannels(chars, i, k) ==
  LET from == i + RunLength(chars, i, WhiteSpace)
      count == RunLength(chars, from, Digits)
      after == from + count + RunLength(chars, from + count, WhiteSpace)
      group == SubSeq(chars, from, from + count - 1)
  IN IF count \notin 1..3 THEN [ok |-> FALSE, groups |-> <<>>, next |-> 0]
     ELSE IF k = 1 THEN [ok |-> TRUE, groups |-> <<group>>, next |-> after]
     ELSE IF after > Len(chars) \/ chars[after] # ","
     THEN [ok |-> FALSE, groups |-> <<>>, next |-> 0]
     ELSE Then(matchChannels(chars, after + 1, k - 1), LAMBDA rest :
            [ok |-> rest.ok, groups |-> <<group>> \o rest.groups, next |-> rest.next])

\* color.match(/^rgb\(\s*(\d{1,3})\s*,\s*(\d{1,3})\s*,\s*(\d{1,3})\s*\)$/)
rgbPattern(chars) ==
  IF ~StartsWith(chars, <<"r", "g", "b", "(">>) THEN [ok |-> FALSE, groups |-> <<>>]
  ELSE Then(matchChannels(chars, 5, 3), LAMBDA m :
         IF m.ok /\ m.next = Len(chars) /\ chars[m.next] = ")"
         THEN [ok |-> TRUE, groups |-> m.groups]
         ELSE [ok |-> FALSE, groups |-> <<>>])

\* ([01]?\.?\d*) matches the whole of a run of digits and points
alphaPattern(token) ==
  LET points == {i \in 1..Len(token) : token[i] = "."}
  IN \/ points = {}
     \/ points = {1}
     \/ points = {2} /\ token[1] \in {"0", "1"}

\* color.match(/^rgba\(\s*(\d{1,3})\s*,\s*(\d{1,3})\s*,\s*(\d{1,3})\s*,
\*              \s*([01]?\.?\d*)\s*\)$/)
rgbaPattern(chars) ==
  IF ~StartsWith(chars, <<"r", "g", "b", "a", "(">>) THEN [ok |-> FALSE, groups |-> <<>>]
  ELSE Then(matchChannels(chars, 6, 3), LAMBDA m :
         IF ~m.ok \/ m.next > Len(chars) \/ chars[m.next] # ","
         THEN [ok |-> FALSE, groups |-> <<>>]
         ELSE LET from == m.next + 1 + RunLength(chars, m.next + 1, WhiteSpace)
                  count == RunLength(chars, from, Digits \cup {"."})
                  after == from + count + RunLength(chars, from + count, WhiteSpace)
                  token == SubSeq(chars, from, from + count - 1)
              IN IF alphaPattern(token) /\ after = Len(chars) /\ chars[after] = ")"
                 THEN [ok |-> TRUE, groups |-> Append(m.groups, token)]
                 ELSE [ok |-> FALSE, groups |-> <<>>])

\* parseFloat of a run of digits and points that matched ([01]?\.?\d*):
\* num / den, or NaN
parseFloat(token) ==
  LET whole == SubSeq(token, 1, RunLength(token, 1, Digits))
      fraction == IF Len(whole) < Len(token)
                  THEN SubSeq(token, Len(whole) + 2, Len(token)) ELSE <<>>
  IN [nan |-> whole = <<>> /\ fraction = <<>>,
      num |-> parseInt(whole \o fraction),
      den |-> Pow10(Len(fraction))]

namedColors ==
  {
   <<"t", "r", "a", "n", "s", "p", "a", "r", "e", "n", "t">>, <<"w", "h", "i", "t", "e">>,
   <<"b", "l", "a", "c", "k">>, <<"r", "e", "d">>,
   <<"g", "r", "e", "e", "n">>, <<"b", "l", "u", "e">>,
   <<"y", "e", "l", "l", "o", "w">>, <<"o", "r", "a", "n", "g", "e">>,
   <<"p", "u", "r", "p", "l", "e">>, <<"p", "i", "n", "k">>,
   <<"g", "r", "a", "y">>, <<"g", "r", "e", "y">>,
   <<"b", "r", "o", "w", "n">>, <<"c", "y", "a", "n">>,
   <<"m", "a", "g", "e", "n", "t", "a">>, <<"l", "i", "m", "e">>}

\* sanitizeColor with the range checks of rgb() and rgba() left out
sanitizeColor_NoRange(value) ==
  IF value.type # "string" \/ value.chars = <<>>
  THEN [result |-> DEFAULT_COLOR, threw |-> FALSE]
  ELSE
  Then(value.chars, LAMBDA chars :
  Then(rgbPattern(chars), LAMBDA rgbMatch :
  Then(rgbaPattern(chars), LAMBDA rgbaMatch :
    IF hexPattern(chars) THEN [result |-> chars, threw |-> FALSE]
    ELSE IF rgbMatch.ok THEN [result |-> chars, threw |-> FALSE]
    ELSE IF rgbaMatch.ok THEN [result |-> chars, threw |-> FALSE]
    ELSE IF toLowerCase(chars) \in namedColors
    THEN [result |-> toLowerCase(chars), threw |-> FALSE]
    ELSE [result |-> DEFAULT_COLOR, threw |-> FALSE])))

\* sanitizeColor(color): what it returns, and whether it throws
sanitizeColor(value) ==
  IF value.type # "string" \/ value.chars = <<>>
  THEN [result |-> DEFAULT_COLOR, threw |-> FALSE]
  ELSE
  Then(value.chars, LAMBDA chars :
  Then(rgbPattern(chars), LAMBDA rgbMatch :
  Then(rgbaPattern(chars), LAMBDA rgbaMatch :
    IF hexPattern(chars) THEN [result |-> chars, threw |-> FALSE]
    ELSE IF /\ rgbMatch.ok
            /\ \A i \in 1..3 : parseInt(rgbMatch.groups[i]) <= 255
    THEN [result |-> chars, threw |-> FALSE]
    ELSE IF /\ rgbaMatch.ok
            /\ \A i \in 1..3 : parseInt(rgbaMatch.groups[i]) <= 255
            /\ ~parseFloat(rgbaMatch.groups[4]).nan
            /\ parseFloat(rgbaMatch.groups[4]).num <= parseFloat(rgbaMatch.groups[4]).den
    THEN [result |-> chars, threw |-> FALSE]
    ELSE IF toLowerCase(chars) \in namedColors
    THEN [result |-> toLowerCase(chars), threw |-> FALSE]
    ELSE [result |-> DEFAULT_COLOR, threw |-> FALSE])))

NoColor == [type |-> "undefined", chars |-> <<>>, form |-> "none", expected |-> <<>>]
NoColorCall == [called |-> FALSE, result |-> <<>>, threw |-> FALSE]

InitColorIdle ==
  /\ color = NoColor
  /\ colorLast = NoColorCall

(***************************************************************************)
(* Initialization (content-main.js).                                       *)
(***************************************************************************)
MAX_INITIALIZATION_ATTEMPTS == 3

requiredModules ==
  {"SelectionManager", "DOMSelectors", "NotePositioning", "NoteEditing",
   "NoteDragging", "URLMonitor", "NoteDisplay"}

\* initializeModules(): it throws when a required module is missing
initializeModules(loaded) == [threw |-> ~(requiredModules \subseteq loaded)]

\* initializeWebNotes() as far as its await of loadAndDisplayNotes, or to
\* its end: every error is caught inside, where the cleanup is scheduled
initializeWebNotes(m, loaded) ==
  IF m.isInitialized
  THEN [main |-> [m EXCEPT !.calls = @ + 1], threw |-> FALSE, awaiting |-> FALSE]
  ELSE IF initializeModules(loaded).threw
  THEN [main |-> [m EXCEPT !.calls = @ + 1, !.cleanupTimers = @ + 1],
        threw |-> FALSE, awaiting |-> FALSE]
  ELSE [main |-> [m EXCEPT !.calls = @ + 1, !.listening = TRUE, !.monitoring = TRUE],
        threw |-> FALSE, awaiting |-> TRUE]

\* one round of the loop of initializeWithRetry(), as far as its next await
initializeWithRetry(m, loaded) ==
  Then(initializeWebNotes(m, loaded), LAMBDA r :
    IF ~r.threw
    THEN [r.main EXCEPT !.pc = IF r.awaiting THEN "loading" ELSE "returned"]
    ELSE [r.main EXCEPT !.attempts = @ + 1,
                        !.pc = IF r.main.attempts + 1 < MAX_INITIALIZATION_ATTEMPTS
                               THEN "delay" ELSE "failed"])

\* cleanup()
cleanup(m) ==
  [m EXCEPT !.isInitialized = FALSE, !.listening = FALSE, !.monitoring = FALSE]

\* the page before the timeout that calls initializeWithRetry has run
IdleMain ==
  [pc |-> "ready", attempts |-> 0, calls |-> 0, isInitialized |-> FALSE,
   listening |-> FALSE, monitoring |-> FALSE, cleanupTimers |-> 0]

InitMainIdle ==
  /\ main = IdleMain
  /\ modules = requiredModules

(***************************************************************************)
(* Timeouts against the clock.  Time is in milliseconds.  A pending        *)
(* timeout is [id, left, ...]: left is the time until it is due, below 0   *)
(* once the event loop is late with it.                                    *)
(***************************************************************************)
\* note-positioning.js: POSITIONING_CONSTANTS
RESIZE_THROTTLE_DELAY == 300
\* url-monitor.js: URL_MONITOR_CONSTANTS
DEBOUNCE_DELAY == 500

\* how late the event loop can be with a timeout that is due
MaxLateMs == 100
\* the steps in which the clock is watched
TimeSteps == {100, 200}

\* the pending timeouts after ms milliseconds
Elapse(timers, ms) == [i \in 1..Len(timers) |-> [timers[i] EXCEPT !.left = @ - ms]]
\* the clock can go on by ms without a timeout being later than MaxLateMs
CanElapse(timers, ms) == \A i \in 1..Len(timers) : timers[i].left - ms >= -MaxLateMs
\* the timeouts the event loop can run now: those due, the one due first
\* before the others
Due(timers) ==
  {i \in 1..Len(timers) :
     /\ timers[i].left <= 0
     /\ \A j \in 1..Len(timers) : timers[j].left >= timers[i].left}
RemoveIndex(timers, i) == SubSeq(timers, 1, i - 1) \o SubSeq(timers, i + 1, Len(timers))

\* debounce(func, delay) without the clearTimeout
debounce_NoClear(r, delay) ==
  [r EXCEPT !.timers = Append(@, [id |-> r.nextId, left |-> delay]),
            !.timeoutId = r.nextId,
            !.nextId = @ + 1]

\* debounce(func, delay): a call of the function it returns.  r holds
\* timeoutId of the closure and the pending timeouts
debounce(r, delay) ==
  [r EXCEPT !.timers = Append(clearTimeout(@, r.timeoutId),
                              [id |-> r.nextId, left |-> delay]),
            !.timeoutId = r.nextId,
            !.nextId = @ + 1]

\* handleWindowResize = DOMSelectors.debounce(() => repositionAllNotes(),
\* RESIZE_THROTTLE_DELAY)
handleWindowResize(r) == debounce(r, RESIZE_THROTTLE_DELAY)

IdleResize ==
  [timeoutId |-> 0, nextId |-> 1, timers |-> <<>>,
   events |-> 0, sinceEvent |-> 0, gap |-> 0, runsBetween |-> 0, runsSince |-> 0,
   ranAfter |-> 0, unanswered |-> FALSE]

\* URLMonitorState and the pending timeouts of checkUrlChange: currentUrl;
\* sinceChange, Date.now() - lastUrlChange, kept up to MonitorQuiet; the
\* timeouts with the oldUrl and currentUrl of their closures.  The rest
\* observes the run: the changes detected, the time between the last two,
\* the notifications between the last two and since the last one, the
\* arguments of the last notification, whether a detected change waits for
\* its notification, whether a timeout ran later than it was due, and
\* whether two changes were detected at the same reading of the clock.
IdleMonitor ==
  [currentUrl |-> NoUrl, sinceChange |-> 0, timers |-> <<>>,
   changes |-> 0, gap |-> 0, notifiedBetween |-> 0, notifiedSince |-> 0,
   oldUrl |-> NoUrl, newUrl |-> NoUrl, unanswered |-> FALSE, late |-> FALSE,
   sameTime |-> FALSE]

MonitorQuiet == DEBOUNCE_DELAY + MaxLateMs

\* checkUrlChange() when window.location.href is href: a change sets
\* currentUrl and lastUrlChange and starts a timeout of DEBOUNCE_DELAY; the
\* timeouts started before stay pending
checkUrlChange(mo, href) ==
  IF href # mo.currentUrl
  THEN [mo EXCEPT !.currentUrl = href,
                  !.sinceChange = 0,
                  !.timers = Append(@, [left |-> DEBOUNCE_DELAY,
                                        oldUrl |-> mo.currentUrl,
                                        newUrl |-> href])]
  ELSE mo

\* notifyUrlChange(oldUrl, newUrl): every registered callback is called
\* with the two URLs
notifyUrlChange(mo, oldUrl, newUrl) ==
  [mo EXCEPT !.oldUrl = oldUrl, !.newUrl = newUrl,
             !.notifiedSince = @ + 1, !.unanswered = FALSE]

\* the timeout of checkUrlChange, t, runs
checkUrlChangeTimeout(mo, t) ==
  \* timeSinceChange = Date.now() - URLMonitorState.lastUrlChange
  IF mo.sinceChange >= DEBOUNCE_DELAY
  THEN notifyUrlChange(mo, t.oldUrl, t.newUrl)
  ELSE mo

InitTimeIdle ==
  /\ resize = IdleResize
  /\ monitor = IdleMonitor

InitAppIdle == InitEditIdle /\ InitNavIdle /\ InitColorIdle /\ InitMainIdle /\ InitTimeIdle

(***************************************************************************)
(* SpecDom: the page mutates its document; the engine generates an anchor  *)
(* for an element and resolves it.  The specification follows one anchor   *)
(* at a time: clearElementCache comes before the engine turns to an anchor *)
(* with another cache key.                                                 *)
(***************************************************************************)
EmptySelector == [css |-> <<>>, xpath |-> <<>>]
NoCall == [op |-> "none", el |-> NoElement, hadStale |-> FALSE]

InitDocument ==
  /\ status = [n \in AllNodes |-> IF n \in {DocEl, Body} THEN "attached" ELSE "unused"]
  /\ kids = [n \in AllNodes |-> IF n = DocEl THEN <<Body>> ELSE <<>>]
  /\ tag = [n \in AllNodes |-> IF n = DocEl THEN "html" ELSE IF n = Body THEN "body" ELSE ""]
  /\ elId = [n \in AllNodes |-> ""]
  /\ cls = [n \in AllNodes |-> <<>>]

InitSelectors ==
  /\ elementCache = <<>>
  /\ anchor = EmptySelector
  /\ genFor = NoElement
  /\ last = NoCall

InitDom == InitDocument /\ InitSelectors /\ InitHlIdle /\ InitPosIdle /\ InitAppIdle

InsertAt(s, i, n) == SubSeq(s, 1, i - 1) \o <<n>> \o SubSeq(s, i, Len(s))

\* the page adds an element (appendChild / insertBefore) below <body>, at
\* most two levels deep
InsertElement ==
  /\ \E n \in Elems :
       /\ status[n] = "unused"
       /\ \A m \in Elems : m < n => status[m] # "unused"
       /\ \E p \in Attached \ {DocEl} : \E i \in 1..(Len(kids[p]) + 1) :
          \E t \in Tags : \E d \in Ids : \E c \in ClassesOf(t) :
            /\ (p = Body \/ Parent(p) = Body)
            /\ status' = [status EXCEPT ![n] = "attached"]
            /\ kids' = [kids EXCEPT ![p] = InsertAt(kids[p], i, n)]
            /\ tag' = [tag EXCEPT ![n] = t]
            /\ elId' = [elId EXCEPT ![n] = d]
            /\ cls' = [cls EXCEPT ![n] = c]
  /\ genFor' = NoElement
  /\ last' = NoCall
  /\ UNCHANGED <<elementCache, anchor>>
  /\ UNCHANGED notDomVars

\* the page removes an element with its subtree (removeChild); nothing the
\* engine does reads a removed node beyond document.contains, so the removed
\* nodes are kept blank
Detach(n) ==
  LET gone == Subtree(n) IN
  /\ status' = [m \in AllNodes |-> IF m \in gone THEN "detached" ELSE status[m]]
  /\ kids' = [m \in AllNodes |-> IF m \in gone THEN <<>>
                                 ELSE SelectSeq(kids[m], LAMBDA k : k # n)]
  /\ tag' = [m \in AllNodes |-> IF m \in gone THEN "" ELSE tag[m]]
  /\ elId' = [m \in AllNodes |-> IF m \in gone THEN "" ELSE elId[m]]
  /\ cls' = [m \in AllNodes |-> IF m \in gone THEN <<>> ELSE cls[m]]

RemoveElement ==
  /\ \E n \in Attached \ {DocEl, Body} : Detach(n)
  /\ genFor' = NoElement
  /\ last' = NoCall
  /\ UNCHANGED <<elementCache, anchor>>
  /\ UNCHANGED notDomVars

\* the page changes an element's id attribute
SetId ==
  /\ \E n \in Attached \ {DocEl, Body} : \E d \in Ids :
       /\ d # elId[n]
       /\ elId' = [elId EXCEPT ![n] = d]
  /\ genFor' = NoElement
  /\ last' = NoCall
  /\ UNCHANGED <<status, kids, tag, cls, elementCache, anchor>>
  /\ UNCHANGED notDomVars

\* the page changes an element's class attribute
SetClass ==
  /\ \E n \in Attached \ {DocEl, Body} : \E c \in ClassesOf(tag[n]) :
       /\ c # cls[n]
       /\ cls' = [cls EXCEPT ![n] = c]
  /\ genFor' = NoElement
  /\ last' = NoCall
  /\ UNCHANGED <<status, kids, tag, elId, elementCache, anchor>>
  /\ UNCHANGED notDomVars

\* clearElementCache()
ClearCache ==
  /\ elementCache # <<>>
  /\ elementCache' = <<>>
  /\ last' = NoCall
  /\ UNCHANGED <<status, kids, tag, elId, cls, anchor, genFor>>
  /\ UNCHANGED notDomVars

\* generateOptimalSelector(e) for an attached element other than the root
Generate ==
  /\ \E e \in Attached \ {DocEl} :
       LET selector == generateOptimalSelector(e) IN
       /\ \A i \in 1..Len(elementCache) : elementCache[i].key = cacheKey(selector)
       /\ anchor' = selector
       /\ genFor' = e
  /\ last' = NoCall
  /\ UNCHANGED <<status, kids, tag, elId, cls, elementCache>>
  /\ UNCHANGED notDomVars

\* findElementBySelector(anchor)
Find ==
  /\ anchor # EmptySelector
  /\ LET r == findElementBySelector(elementCache, anchor)
         key == cacheKey(anchor)
     IN /\ elementCache' = r.cache
        /\ last' = [op |-> "find", el |-> r.el,
                    hadStale |-> CacheHas(elementCache, key)
                                 /\ ~Contains(CacheGet(elementCache, key))]
  /\ UNCHANGED <<status, kids, tag, elId, cls, anchor, genFor>>
  /\ UNCHANGED notDomVars

NextDom ==
  \/ InsertElement
  \/ RemoveElement
  \/ SetId
  \/ SetClass
  \/ ClearCache
  \/ Generate
  \/ Find

SpecDom == InitDom /\ [][NextDom]_vars

Spec == SpecDom

(***************************************************************************)
(* Claims about selector generation and resolution (SpecDom).              *)
(***************************************************************************)

\* C1: findElementBySelector(generateOptimalSelector(e)) returns e, for an
\* attached element e other than the root, when nothing in the document
\* changed between the generate call and the resolve call.
C1_RoundTrip ==
  (last.op = "find" /\ genFor # NoElement) => last.el = genFor

\* C2: a lookup never returns a node that is no longer in the document: it
\* returns an attached element or null, and after it the cache holds no
\* entry under the looked-up key for a detached node.
C2_NeverDetached ==
  last.op = "find" =>
    /\ (last.el = NoElement \/ Contains(last.el))
    /\ \A i \in 1..Len(elementCache) :
         elementCache[i].key = cacheKey(anchor) => Contains(elementCache[i].el)

\* a lookup met the entry of a removed element, dropped it and resolved the
\* anchor to an element of the document
C2_Witness ==
  /\ last.op = "find"
  /\ last.hadStale
  /\ last.el # NoElement

(***************************************************************************)
(* SpecHl: highlights are created, removed and cleared on a target element *)
(* whose text is one or two text nodes to begin with.  Each note was made  *)
(* from a selection in that text, or without one.                          *)
(***************************************************************************)
\* the two characters are interchangeable, so the text begins with "a"
PageTexts == {t \in SeqsOf(MaxTextLen) : t[1] = "a"}

InitHl ==
  /\ InitDocument
  /\ InitSelectors
  /\ InitPosIdle
  /\ InitAppIdle
  /\ targetAttached = TRUE
  /\ pageText \in PageTexts
  /\ content \in {<<TextNode(pageText)>>}
                 \cup {<<TextNode(SubSeq(pageText, 1, k)),
                         TextNode(SubSeq(pageText, k + 1, Len(pageText)))>> :
                       k \in 1..(MaxTextLen - 1)}
  /\ selection \in [NoteIds ->
       {NoSelection}
       \cup {captureSelectionData(content, r[1], r[2]) :
               r \in {q \in (0..(MaxTextLen - 1)) \X (1..MaxTextLen) :
                        q[1] + q[2] <= MaxTextLen}}]
  /\ noteHighlights = <<>>
  /\ hlLast = NoHlCall

UsedWrappers ==
  {w.el : w \in Wrappers(content)}
  \cup {noteHighlights[i].element : i \in 1..Len(noteHighlights)}

\* createTextHighlight(noteData)
CreateTextHighlight ==
  /\ WrapperIds \ UsedWrappers # {}
  /\ \E n \in NoteIds :
       LET w == CHOOSE x \in WrapperIds \ UsedWrappers :
                  \A y \in WrapperIds \ UsedWrappers : x <= y
           note == [id |-> n, text |-> selection[n].text,
                        contextBefore |-> selection[n].contextBefore,
                        contextAfter |-> selection[n].contextAfter]
           r == createTextHighlight(content, noteHighlights, targetAttached, note, w)
       IN /\ content' = r.content
          /\ noteHighlights' = r.noteHighlights
          /\ hlLast' = [op |-> "create", noteId |-> n, ok |-> r.ok,
                        again |-> /\ hlLast.op = "create"
                                  /\ hlLast.ok
                                  /\ hlLast.noteId = n,
                        inDoc |-> FALSE, parent |-> <<>>]
  /\ UNCHANGED <<targetAttached, pageText, selection>>
  /\ UNCHANGED notHlVars

\* removeTextHighlight(noteId)
RemoveTextHighlight ==
  /\ \E n \in NoteIds :
       LET r == removeTextHighlight(content, noteHighlights, n)
           path == IF HasHighlight(noteHighlights, n)
                   THEN WrapperPath(content, 1, <<>>, GetHighlight(noteHighlights, n).element)
                   ELSE <<>>
       IN /\ content' = r.content
          /\ noteHighlights' = r.noteHighlights
          /\ hlLast' = [op |-> "remove", noteId |-> n, ok |-> r.ok,
                        again |-> FALSE, inDoc |-> path # <<>>,
                        parent |-> ParentPath(path)]
  /\ UNCHANGED <<targetAttached, pageText, selection>>
  /\ UNCHANGED notHlVars

\* clearAllHighlights()
ClearAllHighlights ==
  /\ LET r == clearAllHighlights(content, noteHighlights)
     IN /\ content' = r.content
        /\ noteHighlights' = r.noteHighlights
  /\ hlLast' = [NoHlCall EXCEPT !.op = "clear"]
  /\ UNCHANGED <<targetAttached, pageText, selection>>
  /\ UNCHANGED notHlVars

\* the page removes the target element from the document
DetachTarget ==
  /\ targetAttached
  /\ targetAttached' = FALSE
  /\ hlLast' = NoHlCall
  /\ UNCHANGED <<content, noteHighlights, pageText, selection>>
  /\ UNCHANGED notHlVars

NextHl ==
  \/ CreateTextHighlight
  \/ RemoveTextHighlight
  \/ ClearAllHighlights
  \/ DetachTarget

SpecHl == InitHl /\ [][NextHl]_vars

(***************************************************************************)
(* Claims about highlights (SpecHl).                                       *)
(***************************************************************************)
\* the wrappers of a note that are in the document
LiveWrappers(n) == IF targetAttached THEN WrappersOf(content, n) ELSE {}

\* merged text: no empty text node and no two text nodes side by side
Merged(nodes) ==
  /\ \A i \in 1..Len(nodes) : nodes[i].type = "text" => nodes[i].data # <<>>
  /\ \A i \in 1..(Len(nodes) - 1) : ~(nodes[i].type = "text" /\ nodes[i + 1].type = "text")

\* C3: every noteId has at most one highlight record and at most one
\* wrapper in the target element, and a createTextHighlight call that
\* repeats the successful call before it succeeds too and leaves exactly
\* one wrapper of the note in the document, the one its record names.
C3_OneHighlightPerNote ==
  /\ \A n \in NoteIds :
       /\ Cardinality({i \in 1..Len(noteHighlights) : noteHighlights[i].noteId = n}) <= 1
       /\ Cardinality(WrappersOf(content, n)) <= 1
  /\ (hlLast.op = "create" /\ hlLast.again) =>
       /\ hlLast.ok
       /\ HasHighlight(noteHighlights, hlLast.noteId)
       /\ LiveWrappers(hlLast.noteId) =
            {[el |-> GetHighlight(noteHighlights, hlLast.noteId).element,
              noteId |-> hlLast.noteId]}

\* the same createTextHighlight call made twice in succession
C3_Witness ==
  /\ hlLast.op = "create"
  /\ hlLast.again
  /\ hlLast.ok
  /\ Len(noteHighlights) = 2

\* C4: the target element's text content is what it was before the first
\* highlight, whatever was created, re-created, removed or cleared; after
\* removeTextHighlight(noteId) the note has no record and no wrapper, and the
\* children of the node the wrapper was in are merged text.
C4_TextRestored ==
  /\ TextOf(content) = pageText
  /\ (hlLast.op = "remove" /\ hlLast.ok) =>
       /\ ~HasHighlight(noteHighlights, hlLast.noteId)
       /\ WrappersOf(content, hlLast.noteId) = {}
       /\ hlLast.inDoc => Merged(KidsAt(content, hlLast.parent))

\* a wrapper that sat between two pieces of text was unwrapped
C4_Witness ==
  /\ hlLast.op = "remove"
  /\ hlLast.ok
  /\ hlLast.inDoc
  /\ selection[hlLast.noteId].contextBefore # <<>>
  /\ selection[hlLast.noteId].contextAfter # <<>>
  /\ content = <<TextNode(pageText)>>

\* the text nodes below the target element that contain s
NodesWith(nodes, s) ==
  {k \in 1..Len(TextPaths(nodes, 1, <<>>)) :
     Includes(NodeAt(nodes, TextPaths(nodes, 1, <<>>)[k]).data, s)}

\* C25: when a text node of the container contains
\* contextBefore + text + contextAfter, findTextInElement returns a text node
\* that contains it, also when an earlier text node contains the bare text;
\* the bare-text match is for the case that no text node has the string
\* with its context.
C25_ContextMatchPreferred ==
  \A n \in NoteIds :
    LET sel == selection[n]
        fullContext == sel.contextBefore \o sel.text \o sel.contextAfter
        r == findTextInElement(content, sel.text, sel.contextBefore, sel.contextAfter)
    IN (sel # NoSelection /\ NodesWith(content, fullContext) # {}) =>
         /\ r.found
         /\ Includes(NodeAt(content, r.path).data, fullContext)

\* C26: when createTextHighlight has succeeded and the text node it chose
\* contained contextBefore + text + contextAfter, the wrapper starts at the
\* index of that string in the node plus the length of contextBefore and
\* holds exactly the text: the text node was split there, so the chosen
\* node's text is the text before the wrapper, the wrapper's and the text
\* after it.
C26_WrapsContextOccurrence ==
  (hlLast.op = "create" /\ hlLast.ok) =>
    LET sel == selection[hlLast.noteId]
        fullContext == sel.contextBefore \o sel.text \o sel.contextAfter
        path == WrapperPath(content, 1, <<>>,
                            GetHighlight(noteHighlights, hlLast.noteId).element)
        siblings == KidsAt(content, ParentPath(path))
        i == path[Len(path)]
        before == siblings[i - 1].data
        inside == TextOf(siblings[i].kids)
        after == siblings[i + 1].data
        nodeText == before \o inside \o after
    IN Includes(nodeText, fullContext) =>
         /\ Len(before) = indexOf(nodeText, fullContext) + Len(sel.contextBefore)
         /\ inside = sel.text

(***************************************************************************)
(* SpecPos: a page with one paragraph and one stored note.  The note is    *)
(* displayed, placed again after layout changes, and checked for           *)
(* visibility by the timeouts those calls leave; the user scrolls and the  *)
(* page may remove the paragraph.                                          *)
(***************************************************************************)
\* ensureNoteVisibility timeouts that can be waiting
MaxTimers == 2

Paragraph == Body + 1

InitPage ==
  /\ status = [n \in AllNodes |->
                 IF n \in {DocEl, Body, Paragraph} THEN "attached" ELSE "unused"]
  /\ kids = [n \in AllNodes |->
               IF n = DocEl THEN <<Body>> ELSE IF n = Body THEN <<Paragraph>> ELSE <<>>]
  /\ tag = [n \in AllNodes |->
              IF n = DocEl THEN "html" ELSE IF n = Body THEN "body"
              ELSE IF n = Paragraph THEN "p" ELSE ""]
  /\ elId = [n \in AllNodes |-> IF n = Paragraph THEN "a" ELSE ""]
  /\ cls = [n \in AllNodes |-> <<>>]

Viewports == {[width |-> 100, height |-> 100]}
ScrollOffsets == {0, 10}
PageBox == [left |-> 0, top |-> 0, width |-> 200, height |-> 200]
ParagraphBoxes ==
  {[left |-> 0, top |-> 0, width |-> 40, height |-> 20],
   [left |-> 40, top |-> 40, width |-> 40, height |-> 20]}
NoteSizes == {30, 70}
StoredOffsets == {Absent, 0, 10}
StoredPositions == {[x |-> Absent, y |-> Absent], [x |-> 5, y |-> 30]}

\* the records a note can have in the store: anchored to the paragraph
\* (with or without the x/y of its creation), or free-floating, or neither
NoteRecords ==
  LET selectors == generateOptimalSelector(Paragraph) IN
  {[id |-> "n1", cssSelector |-> selectors.css, xpath |-> selectors.xpath,
    offsetX |-> ox, offsetY |-> oy, x |-> p.x, y |-> p.y] :
     ox \in StoredOffsets, oy \in StoredOffsets, p \in StoredPositions}
  \cup
  {[id |-> "n1", cssSelector |-> <<>>, xpath |-> <<>>,
    offsetX |-> Absent, offsetY |-> Absent, x |-> p.x, y |-> p.y] :
     p \in StoredPositions \cup {[x |-> 30, y |-> 30]}}

InitPos ==
  /\ InitPage
  /\ InitSelectors
  /\ InitHlIdle
  /\ InitAppIdle
  /\ win \in {[width |-> v.width, height |-> v.height, scrollX |-> 0, scrollY |-> 0] :
              v \in Viewports}
  /\ layout \in {[n \in AllNodes |->
                    IF n \in {DocEl, Body} THEN PageBox
                    ELSE IF n = Paragraph THEN b
                    ELSE [left |-> 0, top |-> 0, width |-> 0, height |-> 0]] :
                 b \in ParagraphBoxes}
  /\ noteData \in NoteRecords
  /\ noteEl \in {[inDocument |-> FALSE, left |-> 0, top |-> 0, width |-> nw, height |-> nh] :
                 nw \in NoteSizes, nh \in NoteSizes}
  /\ displayed = FALSE
  /\ dragTarget = NoElement
  /\ visTimers = 0
  /\ lastUpdate = NoRequest
  /\ posLast = NoPosCall
  /\ drag = IdleDrag
  /\ listeners = FALSE
  /\ userSelect = ""
  /\ dropTarget = NoElement
  /\ pointer = [x |-> 0, y |-> 0]
  /\ dragCount = 0

\* displayNote(noteData)
DisplayNote ==
  /\ visTimers < MaxTimers
  /\ \E r \in {displayNote(noteData, noteEl, displayed, elementCache, layout, win)} :
        /\ noteEl' = r.el
        /\ displayed' = r.displayed
        /\ elementCache' = r.cache
        /\ dragTarget' = IF r.how = "skipped" THEN dragTarget ELSE r.dragTarget
        /\ visTimers' = visTimers + r.timers
        /\ posLast' = [NoPosCall EXCEPT !.op = "display", !.how = r.how,
                                        !.target = r.target, !.ran = r.how # "skipped"]
  /\ UNCHANGED <<win, layout, noteData, lastUpdate>>
  /\ UNCHANGED <<domVars, anchor, genFor, last, hlVars, dragVars, appVars>>

\* repositionAllNotes(), as the debounced resize handler calls it
RepositionAllNotes ==
  /\ visTimers < MaxTimers
  /\ noteEl.inDocument
  /\ LET r == repositionAllNotes(noteData, noteEl, elementCache, layout, win)
     IN /\ noteEl' = r.el
        /\ elementCache' = r.cache
        /\ visTimers' = visTimers + r.timers
        /\ posLast' = [NoPosCall EXCEPT !.op = "reposition", !.target = r.target,
                                        !.ran = TRUE]
  /\ UNCHANGED <<win, layout, noteData, displayed, dragTarget, lastUpdate>>
  /\ UNCHANGED <<domVars, anchor, genFor, last, hlVars, dragVars, appVars>>

\* a timeout runs ensureNoteVisibility(noteElement, noteData)
VisibilityCheck ==
  /\ visTimers > 0
  /\ LET r == ensureNoteVisibility(noteEl, noteData, elementCache, layout, win)
     IN /\ noteEl' = r.el
        /\ elementCache' = r.cache
        /\ lastUpdate' = IF r.request.kind = "none" THEN lastUpdate ELSE r.request
        /\ posLast' = [NoPosCall EXCEPT !.op = "visibility", !.ran = noteEl.inDocument,
                                        !.beforeLeft = noteEl.left,
                                        !.beforeTop = noteEl.top,
                                        !.requested = r.request.kind # "none"]
  /\ visTimers' = visTimers - 1
  /\ UNCHANGED <<win, layout, noteData, displayed, dragTarget>>
  /\ UNCHANGED <<domVars, anchor, genFor, last, hlVars, dragVars, appVars>>

\* the user scrolls the page
Scroll ==
  /\ \E sx \in ScrollOffsets : \E sy \in ScrollOffsets :
       /\ <<sx, sy>> # <<win.scrollX, win.scrollY>>
       /\ win' = [win EXCEPT !.scrollX = sx, !.scrollY = sy]
  /\ posLast' = NoPosCall
  /\ UNCHANGED <<layout, noteData, noteEl, displayed, dragTarget, visTimers, lastUpdate>>
  /\ UNCHANGED <<domVars, selVars, hlVars, dragVars, appVars>>

\* the page removes the paragraph
RemoveParagraph ==
  /\ Contains(Paragraph)
  /\ Detach(Paragraph)
  /\ posLast' = NoPosCall
  /\ UNCHANGED <<win, layout, noteData, noteEl, displayed, dragTarget, visTimers,
                 lastUpdate>>
  /\ UNCHANGED <<selVars, hlVars, dragVars, appVars>>

NextPos ==
  \/ DisplayNote
  \/ RepositionAllNotes
  \/ VisibilityCheck
  \/ Scroll
  \/ RemoveParagraph

SpecPos == InitPos /\ [][NextPos]_vars

(***************************************************************************)
(* Claims about placement and visibility (SpecPos).                        *)
(***************************************************************************)
\* the note's rendered rectangle now, and when the last visibility check began
NoteRect == getBoundingClientRect(NoteBox(noteEl), win)
BeforeRect ==
  getBoundingClientRect([left |-> posLast.beforeLeft, top |-> posLast.beforeTop,
                         width |-> noteEl.width, height |-> noteEl.height], win)

InBandX(r) == r.left >= MIN_VIEWPORT_MARGIN /\ r.right <= win.width - MIN_VIEWPORT_MARGIN
InBandY(r) == r.top >= MIN_VIEWPORT_MARGIN /\ r.bottom <= win.height - MIN_VIEWPORT_MARGIN
InBand(r) == InBandX(r) /\ InBandY(r)

\* the note is no larger than the band
FitsBand ==
  /\ noteEl.width <= win.width - 2 * MIN_VIEWPORT_MARGIN
  /\ noteEl.height <= win.height - 2 * MIN_VIEWPORT_MARGIN

CheckedNote == posLast.op = "visibility" /\ posLast.ran

\* C5 as stated: after ensureNoteVisibility ran on a note of any size with
\* an edge outside the band [20, viewport - 20], all four edges are inside it.
C5_ClampedIntoBand ==
  (CheckedNote /\ ~InBand(BeforeRect)) => InBand(NoteRect)

\* C5 amended: after ensureNoteVisibility ran on a note no wider than
\* viewport width - 40 and no taller than viewport height - 40 that had an
\* edge outside the band, all four edges are inside the band.
C5_ClampedWhenItFits ==
  (CheckedNote /\ ~InBand(BeforeRect) /\ FitsBand) => InBand(NoteRect)

\* a note that fits, out of band on both axes of a scrolled page, was checked
C5_Witness ==
  /\ CheckedNote
  /\ ~InBandX(BeforeRect)
  /\ ~InBandY(BeforeRect)
  /\ FitsBand
  /\ win.scrollX # 0
  /\ win.scrollY # 0

\* C6: ensureNoteVisibility leaves the position of a note inside the band
\* as it is and requests no offset update for it; with one axis out of
\* band, the coordinate of the other axis stays as it is.
C6_InBandUntouched ==
  CheckedNote =>
    /\ InBandX(BeforeRect) => noteEl.left = posLast.beforeLeft
    /\ InBandY(BeforeRect) => noteEl.top = posLast.beforeTop
    /\ InBand(BeforeRect) => ~posLast.requested

\* an anchored note out of band on the vertical axis only was checked, and
\* its offset update requested
C6_Witness ==
  /\ CheckedNote
  /\ InBandX(BeforeRect)
  /\ ~InBandY(BeforeRect)
  /\ posLast.requested
  /\ noteEl.top # posLast.beforeTop

UnresolvedDisplay ==
  /\ posLast.op = "display"
  /\ posLast.ran
  /\ IsAnchored(noteData)
  /\ posLast.target = NoElement

InitEdit ==
  /\ InitDocument
  /\ InitSelectors
  /\ InitHlIdle
  /\ InitPosIdle
  /\ InitAppIdle

\* what the handler that took e to f sent to the store
SentBy(e, f) ==
  {[noteId |-> f.writes[i].noteId, content |-> f.writes[i].content] :
     i \in (Len(e.writes) + 1)..Len(f.writes)}

PendingOf(e) == {e.timers[i] : i \in 1..Len(e.timers)}

EditFrame == UNCHANGED <<domVars, selVars, hlVars, posVars, dragVars, enterTimers, restVars>>

\* a double click on a note: enterEditMode
EnterEditMode ==
  /\ ~pageUnloaded
  /\ Len(edit.writes) < MaxWrites
  /\ \E n \in NoteIds :
       /\ edit' = enterEditMode(edit, n)
       /\ lastContent' = IF edit.editing # NoNoteId
                         THEN [lastContent EXCEPT ![edit.editing] = edit.textarea]
                         ELSE lastContent
       /\ editLast' = [NoEditCall EXCEPT !.op = "enter", !.noteId = edit.editing]
  /\ UNCHANGED <<storedContent, pageUnloaded>>
  /\ EditFrame

\* the user changes the text: the input handler calls autoSaveNote
Input ==
  /\ ~pageUnloaded
  /\ edit.editing # NoNoteId
  /\ CanSetTimeout(edit)
  /\ \E text \in EditContents :
       /\ text # edit.textarea
       /\ Len(autoSaveNote(edit, edit.editing, text).timers) <= MaxSaveTimers
       /\ edit' = [autoSaveNote(edit, edit.editing, text) EXCEPT !.textarea = text]
       /\ lastContent' = [lastContent EXCEPT ![edit.editing] = text]
  /\ editLast' = NoEditCall
  /\ UNCHANGED <<storedContent, pageUnloaded>>
  /\ EditFrame

\* the oldest auto-save timeout runs
AutoSaveTimeout ==
  /\ ~pageUnloaded
  /\ edit.timers # <<>>
  /\ Len(edit.writes) < MaxWrites
  /\ edit' = autoSaveTimeout(edit)
  /\ editLast' = NoEditCall
  /\ UNCHANGED <<storedContent, lastContent, pageUnloaded>>
  /\ EditFrame

\* the store completes the oldest update and the caller resumes
UpdateNoteDone ==
  /\ edit.writes # <<>>
  /\ storedContent' = [storedContent EXCEPT ![Head(edit.writes).noteId] =
                                               Head(edit.writes).content]
  /\ edit' = IF pageUnloaded THEN [edit EXCEPT !.writes = Tail(edit.writes)]
             ELSE afterUpdateNote(edit)
  /\ editLast' = NoEditCall
  /\ UNCHANGED <<lastContent, pageUnloaded>>
  /\ EditFrame

\* a key goes down in the textarea: handleEditKeydown
EditKeydown ==
  /\ ~pageUnloaded
  /\ edit.editing # NoNoteId
  /\ Len(edit.writes) < MaxWrites
  /\ \E key \in {"Ctrl+Enter", "Escape"} :
       /\ edit' = handleEditKeydown(edit, key)
       /\ lastContent' = IF key = "Ctrl+Enter"
                         THEN [lastContent EXCEPT ![edit.editing] = edit.textarea]
                         ELSE lastContent
       /\ editLast' = [op |-> IF key = "Escape" THEN "escape" ELSE "save",
                       noteId |-> edit.editing, pending |-> PendingOf(edit),
                       sent |-> SentBy(edit, handleEditKeydown(edit, key))]
  /\ UNCHANGED <<storedContent, pageUnloaded>>
  /\ EditFrame

\* visibilitychange with document.hidden
VisibilityHidden ==
  /\ ~pageUnloaded
  /\ Len(edit.writes) < MaxWrites
  /\ edit' = handleVisibilityChange(edit)
  /\ lastContent' = IF edit.editing # NoNoteId
                    THEN [lastContent EXCEPT ![edit.editing] = edit.textarea]
                    ELSE lastContent
  /\ editLast' = [op |-> "hidden", noteId |-> edit.editing, pending |-> PendingOf(edit),
                  sent |-> SentBy(edit, handleVisibilityChange(edit))]
  /\ UNCHANGED <<storedContent, pageUnloaded>>
  /\ EditFrame

\* beforeunload
BeforeUnload ==
  /\ ~pageUnloaded
  /\ Len(edit.writes) < MaxWrites
  /\ edit' = handleBeforeUnload(edit)
  /\ lastContent' = IF edit.editing # NoNoteId
                    THEN [lastContent EXCEPT ![edit.editing] = edit.textarea]
                    ELSE lastContent
  /\ pageUnloaded' = TRUE
  /\ editLast' = [op |-> "unload", noteId |-> edit.editing, pending |-> PendingOf(edit),
                  sent |-> SentBy(edit, handleBeforeUnload(edit))]
  /\ UNCHANGED storedContent
  /\ EditFrame

NextEdit ==
  \/ EnterEditMode
  \/ Input
  \/ AutoSaveTimeout
  \/ UpdateNoteDone
  \/ EditKeydown
  \/ VisibilityHidden
  \/ BeforeUnload

SpecEdit == InitEdit /\ [][NextEdit]_vars

TimersOf(n) == {i \in 1..Len(edit.timers) : edit.timers[i].noteId = n}
WritesOf(n) == {i \in 1..Len(edit.writes) : edit.writes[i].noteId = n}

\* no auto-save timeout of the note can still run and no update of it is
\* in flight
Settled(n) == (pageUnloaded \/ TimersOf(n) = {}) /\ WritesOf(n) = {}

\* C12: once a note's auto-save timeouts and store writes have settled, the
\* store holds the content of the note's last edit or save on exit.
C12_LastEditWins ==
  \A n \in NoteIds : Settled(n) => storedContent[n] = lastContent[n]

\* C13: no note ever has more than one auto-save timeout pending.
C13_OneTimerPerNote ==
  \A n \in NoteIds : Cardinality(TimersOf(n)) <= 1

\* C14: when Escape, the page being hidden or the page unloading ends an
\* edit session while an auto-save timeout is pending for the edited note,
\* the handler sends that content to the store and the timeout is pending
\* no more.
C14_PendingSaveFlushed ==
  (editLast.op \in {"escape", "hidden", "unload"} /\ editLast.noteId # NoNoteId) =>
    \A t \in editLast.pending :
      t.noteId = editLast.noteId =>
        /\ [noteId |-> t.noteId, content |-> t.content] \in editLast.sent
        /\ t \notin PendingOf(edit)

\* C21: at most one note has an editor open, and it is the note recorded as
\* currentlyEditingNote: entering edit mode while a session is active exits
\* the prior session first, so two editors are never open together.
C21_OneEditor ==
  /\ Cardinality(edit.editors) <= 1
  /\ edit.editors # {} => edit.editors = {edit.editing}

\* edit mode was entered for a note while another note was being edited
C21_Witness ==
  /\ editLast.op = "enter"
  /\ editLast.noteId # NoNoteId
  /\ editLast.noteId # edit.editing
  /\ edit.editors = {edit.editing}

(***************************************************************************)
(* SpecDrag: one note on a page with a paragraph; the user presses the     *)
(* mouse on the note, moves it and releases it.  The store applies no      *)
(* update while the page is open: the handlers keep the noteData and the   *)
(* target element that makeDraggable captured.                             *)
(***************************************************************************)
MaxDrags == 1

DragViewports == {[width |-> 200, height |-> 200]}
DragPageBox == [left |-> 0, top |-> 0, width |-> 210, height |-> 210]
DragParagraphBoxes ==
  {[left |-> 100, top |-> 60, width |-> 60, height |-> 60],
   [left |-> 120, top |-> 60, width |-> 60, height |-> 60]}
DragNoteSizes == {30}
\* where on the note the mouse goes down, from its top left corner
GrabOffsets == {[x |-> 10, y |-> 10]}
\* where a mouse move ends, from the place the mouse went down
MoveDeltasX == {0, 3, 5, 50, 110}
MoveDeltasY == {0, 4}

DragNoteRecords ==
  LET selectors == generateOptimalSelector(Paragraph) IN
  {[id |-> "n1", cssSelector |-> selectors.css, xpath |-> selectors.xpath,
    offsetX |-> 10, offsetY |-> 10, x |-> 60, y |-> 60],
   [id |-> "n1", cssSelector |-> <<>>, xpath |-> <<>>,
    offsetX |-> Absent, offsetY |-> Absent, x |-> 60, y |-> 60]}

Wrapper == Paragraph + 1

\* the page: <body><p id="a"></p></body>, or the paragraph without an id
\* inside an <o:p> element, as pages exported from a word processor have
InitDragPage ==
  \E wrapped \in BOOLEAN :
    /\ status = [n \in AllNodes |->
                   IF n \in {DocEl, Body, Paragraph} \/ (wrapped /\ n = Wrapper)
                   THEN "attached" ELSE "unused"]
    /\ kids = [n \in AllNodes |->
                 IF n = DocEl THEN <<Body>>
                 ELSE IF n = Body THEN (IF wrapped THEN <<Wrapper>> ELSE <<Paragraph>>)
                 ELSE IF wrapped /\ n = Wrapper THEN <<Paragraph>> ELSE <<>>]
    /\ tag = [n \in AllNodes |->
                IF n = DocEl THEN "html" ELSE IF n = Body THEN "body"
                ELSE IF n = Paragraph THEN "p"
                ELSE IF wrapped /\ n = Wrapper THEN "o:p" ELSE ""]
    /\ elId = [n \in AllNodes |-> IF n = Paragraph /\ ~wrapped THEN "a" ELSE ""]
    /\ cls = [n \in AllNodes |-> <<>>]

\* where a right click that creates a note lands: on the paragraph or on
\* the body beside it
CreateCoords ==
  {[x |-> 130, y |-> 70, target |-> Paragraph, offsetX |-> Absent, offsetY |-> Absent],
   [x |-> 60, y |-> 60, target |-> Body, offsetX |-> Absent, offsetY |-> Absent]}

InitDrag ==
  /\ InitDragPage
  /\ InitSelectors
  /\ InitHlIdle
  /\ InitAppIdle
  /\ win \in {[width |-> v.width, height |-> v.height, scrollX |-> 0, scrollY |-> 0] :
              v \in DragViewports}
  /\ layout \in {[n \in AllNodes |->
                    IF n \in {DocEl, Body} \/ (n = Wrapper /\ status[n] = "attached")
                    THEN DragPageBox
                    ELSE IF n = Paragraph THEN b
                    ELSE [left |-> 0, top |-> 0, width |-> 0, height |-> 0]] :
                 b \in DragParagraphBoxes}
  /\ noteData \in DragNoteRecords \cup {NoNote}
  /\ noteEl \in {[inDocument |-> FALSE, left |-> 0, top |-> 0, width |-> nw, height |-> nw] :
                 nw \in DragNoteSizes}
  /\ displayed = FALSE
  /\ dragTarget = NoElement
  /\ visTimers = 0
  /\ lastUpdate = NoRequest
  /\ posLast = NoPosCall
  /\ drag = IdleDrag
  /\ listeners = FALSE
  /\ userSelect = ""
  /\ dropTarget = NoElement
  /\ pointer = [x |-> 0, y |-> 0]
  /\ dragCount = 0

\* the create-note request after a right click: createNoteAtCoords, with
\* the store's addNote succeeding or not
CreateNoteAtCoords ==
  /\ ~pageUnloaded
  /\ noteData = NoNote
  /\ visTimers < MaxTimers
  /\ \E coords \in CreateCoords : \E success \in BOOLEAN :
       \E created \in {createNoteAtCoords("n1", coords)} :
         IF success
         THEN \E r \in {displayNote(created, noteEl, displayed, elementCache, layout, win)} :
                /\ noteData' = created
                /\ noteEl' = r.el
                /\ displayed' = r.displayed
                /\ elementCache' = r.cache
                /\ dragTarget' = r.dragTarget
                /\ visTimers' = visTimers + r.timers
                /\ enterTimers' = enterTimers + 1
                /\ currentPageNotes' = Append(currentPageNotes, created.id)
                /\ posLast' = [NoPosCall EXCEPT !.op = "create", !.how = r.how,
                                                !.target = r.target, !.ran = TRUE]
         ELSE /\ posLast' = [NoPosCall EXCEPT !.op = "create"]
              /\ UNCHANGED <<noteData, noteEl, displayed, elementCache, dragTarget,
                             visTimers, enterTimers, currentPageNotes>>
  /\ UNCHANGED <<win, layout, lastUpdate>>
  /\ UNCHANGED <<domVars, anchor, genFor, last, hlVars, dragVars>>
  /\ UNCHANGED <<edit, storedContent, lastContent, pageUnloaded, editLast>>
  /\ UNCHANGED <<url, storedNotes, displayedNotes, noteElements, elCount, fadeTimers,
                 load, del, navLast, navCount, colorVars, mainVars, timeVars>>

\* the timeout of createNoteAtCoords runs enterEditMode(noteElement, noteData)
EnterEditModeTimeout ==
  /\ ~pageUnloaded
  /\ enterTimers > 0
  /\ Len(edit.writes) < MaxWrites
  /\ enterTimers' = enterTimers - 1
  /\ edit' = enterEditMode(edit, noteData.id)
  /\ editLast' = NoEditCall
  /\ UNCHANGED <<storedContent, lastContent, pageUnloaded, restVars>>
  /\ UNCHANGED <<domVars, selVars, hlVars, posVars, dragVars>>

\* handleKeyboardShortcuts with event.key "Escape"
handleKeyboardShortcuts(e) ==
  IF e.editing # NoNoteId THEN exitEditMode(e, e.editing, FALSE) ELSE e

\* Escape goes down anywhere on the page
KeyEscape ==
  /\ ~pageUnloaded
  /\ edit' = handleKeyboardShortcuts(edit)
  /\ editLast' = [op |-> "escape", noteId |-> edit.editing, pending |-> PendingOf(edit),
                  sent |-> {}]
  /\ UNCHANGED <<storedContent, lastContent, pageUnloaded>>
  /\ EditFrame

InViewport(px, py) ==
  /\ 0 <= px /\ px < win.width
  /\ 0 <= py /\ py < win.height

\* mousedown on the note, outside its buttons and fields: handleMouseDown
\* calls startDrag(event, noteElement, noteData, targetElement)
MouseDown ==
  /\ ~pageUnloaded
  /\ noteEl.inDocument
  /\ edit.editing # noteData.id
  /\ ~listeners
  /\ dragCount < MaxDrags
  /\ \E g \in GrabOffsets :
       LET noteRect == getBoundingClientRect(NoteBox(noteEl), win)
           cx == noteRect.left + g.x
           cy == noteRect.top + g.y
       IN /\ g.x < noteEl.width /\ g.y < noteEl.height
          /\ InViewport(cx, cy)
          /\ drag' = startDrag(noteEl, dragTarget, cx, cy, win)
          /\ pointer' = [x |-> cx, y |-> cy]
  /\ listeners' = TRUE
  /\ userSelect' = "none"
  /\ dragCount' = dragCount + 1
  /\ posLast' = [NoPosCall EXCEPT !.op = "down"]
  /\ UNCHANGED <<win, layout, noteData, noteEl, displayed, dragTarget, visTimers,
                 lastUpdate, dropTarget>>
  /\ UNCHANGED <<domVars, selVars, hlVars, appVars>>

\* mousemove on the document while the listeners are attached
MouseMove ==
  /\ ~pageUnloaded
  /\ listeners
  /\ \E dx \in MoveDeltasX : \E dy \in MoveDeltasY :
       LET cx == drag.initialMousePos.x + dx
           cy == drag.initialMousePos.y + dy
           r == handleMouseMove(drag, noteEl, win, layout, dropTarget, cx, cy)
       IN /\ InViewport(cx, cy)
          /\ <<cx, cy>> # <<pointer.x, pointer.y>>
          /\ pointer' = [x |-> cx, y |-> cy]
          /\ drag' = r.drag
          /\ noteEl' = r.el
          /\ win' = r.win
          /\ dropTarget' = r.dropTarget
  /\ posLast' = [NoPosCall EXCEPT !.op = "move", !.ran = drag.draggedNote,
                                  !.wasDragging = drag.isDragging,
                                  !.beforeLeft = noteEl.left,
                                  !.beforeTop = noteEl.top]
  /\ UNCHANGED <<layout, noteData, displayed, dragTarget, visTimers, lastUpdate,
                 listeners, userSelect, dragCount>>
  /\ UNCHANGED <<domVars, selVars, hlVars, appVars>>

\* mouseup on the document: handleMouseUp, with finishDrag and
\* clearDraggingState
MouseUp ==
  /\ ~pageUnloaded
  /\ listeners
  /\ visTimers < MaxTimers
  /\ listeners' = FALSE
  /\ userSelect' = ""
  /\ \E r \in {finishDrag(drag, noteEl, layout, win, pointer.x, pointer.y)} :
        IF drag.isDragging
        THEN /\ lastUpdate' = IF r.request.kind = "none" THEN lastUpdate ELSE r.request
             /\ visTimers' = visTimers + r.timers
             /\ posLast' = [NoPosCall EXCEPT !.op = "up", !.ran = TRUE, !.how = r.how,
                                             !.target = r.target,
                                             !.requested = r.request.kind # "none"]
        ELSE /\ posLast' = [NoPosCall EXCEPT !.op = "up"]
             /\ UNCHANGED <<lastUpdate, visTimers>>
  /\ drag' = clearDraggingState(drag)
  /\ dropTarget' = NoElement
  /\ UNCHANGED <<win, layout, noteData, noteEl, displayed, dragTarget, pointer, dragCount>>
  /\ UNCHANGED <<domVars, selVars, hlVars, appVars>>

NextDrag ==
  \/ (~pageUnloaded /\ noteData # NoNote /\ DisplayNote)
  \/ (~pageUnloaded /\ VisibilityCheck)
  \/ CreateNoteAtCoords
  \/ EnterEditModeTimeout
  \/ KeyEscape
  \/ BeforeUnload
  \/ MouseDown
  \/ MouseMove
  \/ MouseUp

SpecDrag == InitDrag /\ [][NextDrag]_vars

\* the mouse move just handled, measured from where the mouse went down
MoveDeltaX == pointer.x - drag.initialMousePos.x
MoveDeltaY == pointer.y - drag.initialMousePos.y

\* the last step was a mouse move of an armed drag that had not started
ArmedMove == posLast.op = "move" /\ posLast.ran /\ ~posLast.wasDragging

\* C7: while a drag is armed, a pointer move whose distance from the
\* pointer-down point is below the threshold neither starts the drag nor
\* moves the note, and a move at or beyond the threshold starts the drag
\* and moves the note.
C7_DragStartsAtThreshold ==
  ArmedMove =>
    IF MoveDeltaX * MoveDeltaX + MoveDeltaY * MoveDeltaY < DRAG_THRESHOLD * DRAG_THRESHOLD
    THEN /\ ~drag.isDragging
         /\ noteEl.left = posLast.beforeLeft /\ noteEl.top = posLast.beforeTop
    ELSE /\ drag.isDragging
         /\ <<noteEl.left, noteEl.top>> # <<posLast.beforeLeft, posLast.beforeTop>>

\* the last step released a dragged free-floating note over an element
\* that can carry an anchor, other than the one it was anchored to
ReleasedFreeOverAnchor ==
  /\ posLast.op = "up" /\ posLast.ran
  /\ ~IsAnchored(noteData)
  /\ canAnchorToElement(getElementUnderCursor(pointer.x, pointer.y, layout, win),
                        layout, win)

\* C9: releasing a dragged free-floating note over an element that can
\* carry an anchor requests an update that sets the selectors generated for
\* that element and the note's offset from it, and clears the stored x and y.
C9_ReanchorClearsAbsolute ==
  ReleasedFreeOverAnchor =>
    LET element == getElementUnderCursor(pointer.x, pointer.y, layout, win)
        selectors == generateOptimalSelector(element)
    IN /\ posLast.requested
       /\ lastUpdate.kind = "anchor"
       /\ lastUpdate.cssSelector = selectors.css
       /\ lastUpdate.xpath = selectors.xpath
       /\ lastUpdate.offsetX = noteEl.left - layout[element].left
       /\ lastUpdate.offsetY = noteEl.top - layout[element].top
       /\ {"x", "y"} \subseteq lastUpdate.keys
       /\ lastUpdate.x = Null /\ lastUpdate.y = Null

\* the positioning forms a note record carries
HasAnchorForm(data) == IsAnchored(data)
HasAbsoluteForm(data) == ~Nullish(data.x) /\ ~Nullish(data.y)
ExactlyOneForm(data) == HasAnchorForm(data) # HasAbsoluteForm(data)

\* update(pageKey, noteId, partialFields): the record the store holds once
\* it has applied the fields of a request to the record it held
ApplyUpdate(data, request) ==
  [id |-> data.id,
   cssSelector |-> IF "cssSelector" \in request.keys THEN request.cssSelector
                   ELSE data.cssSelector,
   xpath |-> IF "xpath" \in request.keys THEN request.xpath ELSE data.xpath,
   offsetX |-> IF "offsetX" \in request.keys THEN request.offsetX ELSE data.offsetX,
   offsetY |-> IF "offsetY" \in request.keys THEN request.offsetY ELSE data.offsetY,
   x |-> IF "x" \in request.keys THEN request.x ELSE data.x,
   y |-> IF "y" \in request.keys THEN request.y ELSE data.y]

\* C11: every note record the engine creates, and every record that a drag
\* proposes to the store by changing its form, has exactly one positioning
\* form: anchor selectors with an offset, or absolute x and y, never both
\* and never neither.
C11_OneAuthoritativeForm ==
  /\ (posLast.op = "create" /\ posLast.ran) => ExactlyOneForm(noteData)
  /\ (posLast.op = "up" /\ posLast.requested /\ lastUpdate.kind # "offset")
       => ExactlyOneForm(ApplyUpdate(noteData, lastUpdate))

\* C15: while a drag is armed or dragging, an Escape key press or a page
\* unload returns the drag controller to Idle: no dragged note, isDragging
\* false, the move and up listeners removed, and no update request sent.
C15_CancelReturnsToIdle ==
  [][((KeyEscape \/ BeforeUnload) /\ listeners)
       => (drag' = IdleDrag /\ ~listeners' /\ lastUpdate' = lastUpdate)]_vars

\* the last step released a dragged note over an element that can carry an
\* anchor and for which selector generation yields neither selector
ReleasedOverUnanchorable ==
  /\ posLast.op = "up" /\ posLast.ran /\ posLast.how = "anchor"
  /\ generateOptimalSelector(posLast.target) = [css |-> <<>>, xpath |-> <<>>]

\* C16: when selector generation yields no usable anchor for the element a
\* note is dropped on, the drag still requests a position update: an offset
\* update against the anchor the note had before the drag, or else an
\* update of its absolute coordinates.
C16_FailedAnchorFallsBack ==
  ReleasedOverUnanchorable =>
    /\ posLast.requested
    /\ lastUpdate.kind = IF dragTarget # NoElement THEN "offset" ELSE "absolute"

\* the element under the pointer at the release that can carry an anchor
ReleaseAnchor == findNearestAnchorElement(pointer.x, pointer.y, layout, win)

\* the update a release from Dragging is to request
ReleaseKind ==
  IF ReleaseAnchor # NoElement /\ ReleaseAnchor # dragTarget THEN "anchor"
  ELSE IF dragTarget # NoElement THEN "offset"
  ELSE "absolute"

\* C28: a release while dragging requests exactly one update: a re-anchor
\* when an anchorable element under the pointer is not the note's anchor,
\* else an offset update when the note has an anchor, else an update of x
\* and y that clears cssSelector, xpath, offsetX and offsetY; a release of
\* a drag that never passed the threshold requests nothing.
C28_OneUpdateOnRelease ==
  posLast.op = "up" =>
    IF posLast.ran
    THEN /\ posLast.requested
         /\ lastUpdate.kind = ReleaseKind
         /\ lastUpdate.kind = "absolute" =>
              /\ lastUpdate.keys = {"x", "y", "cssSelector", "xpath", "offsetX", "offsetY"}
              /\ lastUpdate.x # Absent /\ lastUpdate.y # Absent
              /\ lastUpdate.cssSelector = <<>> /\ lastUpdate.xpath = <<>>
              /\ lastUpdate.offsetX = Null /\ lastUpdate.offsetY = Null
    ELSE ~posLast.requested

\* C29: after every mouse-up that follows a mouse-down on a note the drag
\* controller is idle: no dragged note, isDragging false, the rest of the
\* drag state reset, the document's mousemove and mouseup listeners removed
\* and text selection restored, for a drag that started and for one that
\* did not, whatever update was requested.
C29_ReleaseReturnsToIdle ==
  posLast.op = "up" =>
    /\ drag = IdleDrag
    /\ ~listeners
    /\ userSelect = ""
    /\ dropTarget = NoElement

\* a drag that never passed the threshold was released
C29_Witness ==
  /\ posLast.op = "up"
  /\ ~posLast.ran
  /\ drag = IdleDrag
  /\ ~listeners

\* the step is a mouse-up that ends a started drag
ReleaseFromDragging ==
  /\ listeners /\ drag.isDragging
  /\ posLast'.op = "up"

\* C30 as stated: after a release from Dragging ensureNoteVisibility has
\* been invoked once for the note by the time the drag controller is idle
\* again, so the release leaves no invocation pending.
C30_VisibilityBeforeIdle ==
  [][ReleaseFromDragging => (drag' = IdleDrag /\ visTimers' <= visTimers)]_vars

\* C30, amended: a release from Dragging, whatever update it requests,
\* sets exactly one timeout for ensureNoteVisibility and does not invoke
\* it: when the drag controller is idle again the note is where the drag
\* left it and the invocation is still to come.
C30_VisibilityScheduledOnce ==
  [][ReleaseFromDragging =>
       /\ drag' = IdleDrag
       /\ visTimers' = visTimers + 1
       /\ noteEl' = noteEl]_vars

\* a started drag was released: the controller is idle and the timeout
\* for ensureNoteVisibility is pending
C30_Witness ==
  /\ posLast.op = "up"
  /\ posLast.ran
  /\ posLast.how \in {"anchor", "offset", "absolute"}
  /\ drag = IdleDrag
  /\ visTimers > 0

\* the pointer move just handled while Dragging
DraggedMove == posLast.op = "move" /\ posLast.ran /\ drag.isDragging

\* C31: while Dragging, auto-scroll steps included, after every pointer
\* move the note's document position is the pointer's document position
\* minus the grab offset recorded at pointer-down
C31_NoteTracksPointer ==
  DraggedMove =>
    /\ noteEl.left = pointer.x + win.scrollX - drag.dragOffsetX
    /\ noteEl.top = pointer.y + win.scrollY - drag.dragOffsetY

\* the same, for moves since which the window has not scrolled from where
\* it was at pointer-down
C31_TracksWithoutScroll ==
  (DraggedMove /\ win.scrollX = 0 /\ win.scrollY = 0) =>
    /\ noteEl.left = pointer.x + win.scrollX - drag.dragOffsetX
    /\ noteEl.top = pointer.y + win.scrollY - drag.dragOffsetY

(***************************************************************************)
(* SpecNav: the notes of a page are loaded and displayed, the page changes *)
(* its URL without reloading, and the user deletes notes.  The store keeps *)
(* note n1 anchored to the paragraph, with a text selection, and note n2   *)
(* free-floating.  Timeouts of the same delay run in the order they were   *)
(* set; the store answers at any time.                                     *)
(***************************************************************************)
MaxNoteElements == 3
MaxFadeTimers == 2
MaxNavSteps == 2

\* the notes of each URL in the store
StoredPages ==
  {[u \in Urls |-> IF u = "u1" THEN <<"n1", "n2">> ELSE <<>>],
   [u \in Urls |-> IF u = "u1" THEN <<"n1">> ELSE <<"n2">>]}

NavNoteRecord(n) ==
  LET selectors == generateOptimalSelector(Paragraph) IN
  IF n = "n1"
  THEN [id |-> n, cssSelector |-> selectors.css, xpath |-> selectors.xpath,
        offsetX |-> 0, offsetY |-> 0, x |-> Absent, y |-> Absent]
  ELSE [id |-> n, cssSelector |-> <<>>, xpath |-> <<>>,
        offsetX |-> Absent, offsetY |-> Absent, x |-> 30, y |-> 30]

\* the selectionData of a note record that getNotes returns.  The store keeps
\* text, contextBefore and contextAfter; targetElement, the live element
\* captureSelectionData put in the record, is not a value the store keeps
StoredSelectionData(sel) ==
  [text |-> sel.text, contextBefore |-> sel.contextBefore,
   contextAfter |-> sel.contextAfter, targetElement |-> NoElement]

\* the element createNoteElement returns
NewNoteElement == [inDocument |-> FALSE, left |-> 0, top |-> 0, width |-> 30, height |-> 30]

\* the state once initializeWebNotes has started page monitoring and has
\* called loadAndDisplayNotes, which awaits the store
InitNav ==
  /\ InitPage
  /\ InitSelectors
  /\ InitEditIdle
  /\ InitColorIdle
  /\ InitMainIdle
  /\ InitTimeIdle
  /\ win = [width |-> 100, height |-> 100, scrollX |-> 0, scrollY |-> 0]
  /\ layout = [n \in AllNodes |->
                 IF n \in {DocEl, Body} THEN PageBox
                 ELSE IF n = Paragraph THEN [left |-> 40, top |-> 40, width |-> 40, height |-> 20]
                 ELSE [left |-> 0, top |-> 0, width |-> 0, height |-> 0]]
  /\ noteData = NoNote
  /\ noteEl = [inDocument |-> FALSE, left |-> 0, top |-> 0, width |-> 0, height |-> 0]
  /\ displayed = FALSE
  /\ dragTarget = NoElement
  /\ visTimers = 0
  /\ lastUpdate = NoRequest
  /\ posLast = NoPosCall
  /\ drag = IdleDrag
  /\ listeners = FALSE
  /\ userSelect = ""
  /\ dropTarget = NoElement
  /\ pointer = [x |-> 0, y |-> 0]
  /\ dragCount = 0
  /\ targetAttached = TRUE
  /\ pageText = <<"a", "b", "a">>
  /\ content = <<TextNode(pageText)>>
  /\ selection = [n \in NoteIds |->
                    IF n = "n1" THEN captureSelectionData(content, 1, 1) ELSE NoSelection]
  /\ noteHighlights = <<>>
  /\ hlLast = NoHlCall
  /\ url = "u1"
  /\ storedNotes \in StoredPages
  /\ displayedNotes = <<>>
  /\ noteElements = {}
  /\ elCount = 0
  /\ fadeTimers = <<>>
  /\ load = [loadingNotes |-> TRUE, pc |-> "getNotes", url |-> "u1", queue |-> <<>>]
  /\ del = IdleDelete
  /\ navLast = NoNavCall
  /\ navCount = 0
  /\ currentPageNotes = <<>>

NavFrame ==
  /\ UNCHANGED <<domVars, anchor, genFor, last, posVars, dragVars, editVars, colorVars, mainVars,
                 timeVars>>
  /\ UNCHANGED <<targetAttached, pageText, selection, hlLast>>

\* displayNote(noteData) for note n: nothing when the note is tracked, else
\* a new element is placed, appended to the body and tracked, and the
\* note's text is highlighted when it has selectionData
DisplayOnPage(n) ==
  \E r \in {displayNote(NavNoteRecord(n), NewNoteElement, Tracked(displayedNotes, n),
                        elementCache, layout, win)} :
    /\ elementCache' = r.cache
    /\ IF r.how = "skipped"
       THEN UNCHANGED <<displayedNotes, noteElements, elCount, content, noteHighlights>>
       ELSE /\ elCount' = elCount + 1
            /\ noteElements' = noteElements \cup {elCount + 1}
            /\ displayedNotes' = Append(displayedNotes, [noteId |-> n, el |-> elCount + 1])
            /\ IF selection[n] = NoSelection
               THEN UNCHANGED <<content, noteHighlights>>
               ELSE \E h \in {createTextHighlight(
                                content, noteHighlights,
                                /\ StoredSelectionData(selection[n]).targetElement # NoElement
                                /\ targetAttached,
                                [id |-> n, text |-> StoredSelectionData(selection[n]).text,
                                 contextBefore |-> StoredSelectionData(selection[n]).contextBefore,
                                 contextAfter |-> StoredSelectionData(selection[n]).contextAfter],
                                CHOOSE x \in WrapperIds \ UsedWrappers :
                                  \A y \in WrapperIds \ UsedWrappers : x <= y)} :
                      /\ content' = h.content
                      /\ noteHighlights' = h.noteHighlights

CanDisplay(n) ==
  /\ Tracked(displayedNotes, n) \/ elCount < MaxNoteElements
  /\ WrapperIds \ UsedWrappers # {}

\* the callback of startPageMonitoring: clearAllDisplayedNotes(), then
\* loadAndDisplayNotes() as far as its first await
UrlChanged ==
  /\ navCount < MaxNavSteps
  /\ Len(fadeTimers) + Len(displayedNotes) <= MaxFadeTimers
  /\ \E newUrl \in Urls \ {url} :
       /\ url' = newUrl
       /\ load' = IF load.loadingNotes THEN load
                  ELSE [loadingNotes |-> TRUE, pc |-> "getNotes", url |-> newUrl,
                        queue |-> <<>>]
  /\ \E c \in {clearAllDisplayedNotes(displayedNotes, fadeTimers, content, noteHighlights)} :
       /\ fadeTimers' = c.timers
       /\ content' = c.content
       /\ noteHighlights' = c.noteHighlights
       /\ displayedNotes' = c.displayedNotes
       /\ currentPageNotes' = c.currentPageNotes
  /\ navCount' = navCount + 1
  /\ navLast' = [op |-> "urlChange", noteId |-> NoNoteId]
  /\ UNCHANGED <<storedNotes, noteElements, elCount, del, elementCache>>
  /\ NavFrame

\* getNotes() resolves in loadAndDisplayNotes: the URL's notes are taken
\* and assigned to currentPageNotes, clearAllDisplayedNotes() runs, which
\* assigns [] to currentPageNotes, and the first displayNote timeout is set
LoadGotNotes ==
  /\ load.pc = "getNotes"
  /\ Len(fadeTimers) + Len(displayedNotes) <= MaxFadeTimers
  /\ \E c \in {clearAllDisplayedNotes(displayedNotes, fadeTimers, content, noteHighlights)} :
       /\ fadeTimers' = c.timers
       /\ content' = c.content
       /\ noteHighlights' = c.noteHighlights
       /\ displayedNotes' = c.displayedNotes
       /\ currentPageNotes' = c.currentPageNotes
  /\ load' = IF storedNotes[load.url] = <<>> THEN IdleLoad
             ELSE [load EXCEPT !.pc = "display", !.queue = storedNotes[load.url]]
  /\ navLast' = [op |-> "loaded", noteId |-> NoNoteId]
  /\ UNCHANGED <<url, storedNotes, noteElements, elCount, del, navCount, elementCache>>
  /\ NavFrame

\* the timeout of the display loop runs displayNote(noteData); after the
\* last note loadAndDisplayNotes finishes
LoadDisplayNext ==
  /\ load.pc = "display"
  /\ CanDisplay(Head(load.queue))
  /\ DisplayOnPage(Head(load.queue))
  /\ load' = IF Tail(load.queue) = <<>> THEN IdleLoad
             ELSE [load EXCEPT !.queue = Tail(load.queue)]
  /\ navLast' = [op |-> "display", noteId |-> Head(load.queue)]
  /\ UNCHANGED <<url, storedNotes, fadeTimers, del, navCount, currentPageNotes>>
  /\ NavFrame

\* the oldest fade-out timeout of removeNoteFromDisplay runs
FadeTimeout ==
  /\ fadeTimers # <<>>
  /\ noteElements' = noteElements \ {Head(fadeTimers).el}
  /\ displayedNotes' = Untrack(displayedNotes, Head(fadeTimers).noteId)
  /\ fadeTimers' = Tail(fadeTimers)
  /\ UNCHANGED <<url, storedNotes, elCount, load, del, navLast, navCount, currentPageNotes, elementCache,
                 content, noteHighlights>>
  /\ NavFrame

\* handleNoteDelete going on whatever the dialog answers
handleNoteDelete_NoConfirm(confirmed, dn, timers, nodes, hl, noteId, currentUrl) ==
  Then(removeTextHighlight(nodes, hl, noteId), LAMBDA r :
    [timers |-> removeNoteFromDisplay(dn, timers, noteId),
     content |-> r.content, noteHighlights |-> r.noteHighlights,
     del |-> [pc |-> "deleteNote", noteId |-> noteId, url |-> currentUrl]])

\* handleNoteDelete(noteId) as far as its await of deleteNote, with the
\* answer of showConfirmDialog
handleNoteDelete(confirmed, dn, timers, nodes, hl, noteId, currentUrl) ==
  IF ~confirmed
  THEN [timers |-> timers, content |-> nodes, noteHighlights |-> hl, del |-> IdleDelete]
  ELSE Then(removeTextHighlight(nodes, hl, noteId), LAMBDA r :
         [timers |-> removeNoteFromDisplay(dn, timers, noteId),
          content |-> r.content, noteHighlights |-> r.noteHighlights,
          del |-> [pc |-> "deleteNote", noteId |-> noteId, url |-> currentUrl]])

\* the user presses a note's delete button and declines in the dialog
DeleteDeclined ==
  /\ del.pc = "idle"
  /\ Len(fadeTimers) < MaxFadeTimers
  /\ \E n \in NoteIds :
       /\ Tracked(displayedNotes, n)
       /\ ElementOf(displayedNotes, n) \in noteElements
       /\ \E r \in {handleNoteDelete(FALSE, displayedNotes, fadeTimers, content,
                                      noteHighlights, n, url)} :
            /\ fadeTimers' = r.timers
            /\ content' = r.content
            /\ noteHighlights' = r.noteHighlights
            /\ del' = r.del
       /\ navLast' = [op |-> "declined", noteId |-> n]
  /\ UNCHANGED <<url, storedNotes, displayedNotes, noteElements, elCount, load, navCount,
                 currentPageNotes, elementCache>>
  /\ NavFrame

\* the user presses a note's delete button and confirms: handleNoteDelete
\* as far as its await of deleteNote
DeleteConfirmed ==
  /\ del.pc = "idle"
  /\ navCount < MaxNavSteps
  /\ Len(fadeTimers) < MaxFadeTimers
  /\ \E n \in NoteIds :
       /\ Tracked(displayedNotes, n)
       /\ ElementOf(displayedNotes, n) \in noteElements
       /\ \E r \in {handleNoteDelete(TRUE, displayedNotes, fadeTimers, content,
                                      noteHighlights, n, url)} :
            /\ fadeTimers' = r.timers
            /\ content' = r.content
            /\ noteHighlights' = r.noteHighlights
            /\ del' = r.del
  /\ navCount' = navCount + 1
  /\ navLast' = [op |-> "delete", noteId |-> NoNoteId]
  /\ UNCHANGED <<url, storedNotes, displayedNotes, noteElements, elCount, load, currentPageNotes,
                 elementCache>>
  /\ NavFrame

\* deleteNote resolves: the store has deleted the note, or it reports
\* failure and handleNoteDelete awaits getNotes
DeleteNoteDone ==
  /\ del.pc = "deleteNote"
  /\ \E success \in BOOLEAN :
       IF success
       THEN /\ storedNotes' = [storedNotes EXCEPT
                                 ![del.url] = SelectSeq(@, LAMBDA n : n # del.noteId)]
            /\ del' = IdleDelete
            /\ navLast' = [op |-> "deleted", noteId |-> del.noteId]
       ELSE /\ del' = [del EXCEPT !.pc = "getNotes"]
            /\ navLast' = [op |-> "delete", noteId |-> NoNoteId]
            /\ UNCHANGED storedNotes
  /\ UNCHANGED <<url, displayedNotes, noteElements, elCount, fadeTimers, load, navCount, currentPageNotes,
                 elementCache, content, noteHighlights>>
  /\ NavFrame

\* getNotes resolves after a failed delete: the note is displayed again
RedisplayAfterFailure ==
  /\ del.pc = "getNotes"
  /\ CanDisplay(del.noteId)
  /\ IF \E i \in 1..Len(storedNotes[del.url]) : storedNotes[del.url][i] = del.noteId
     THEN DisplayOnPage(del.noteId)
     ELSE UNCHANGED <<displayedNotes, noteElements, elCount, content, noteHighlights,
                      elementCache>>
  /\ navLast' = [op |-> "deleteFailed", noteId |-> del.noteId]
  /\ del' = IdleDelete
  /\ UNCHANGED <<url, storedNotes, fadeTimers, load, navCount, currentPageNotes>>
  /\ NavFrame

NextNav ==
  \/ UrlChanged
  \/ LoadGotNotes
  \/ LoadDisplayNext
  \/ FadeTimeout
  \/ DeleteDeclined
  \/ DeleteConfirmed
  \/ DeleteNoteDone
  \/ RedisplayAfterFailure

SpecNav == InitNav /\ [][NextNav]_vars

\* C17: when a URL change has been handled, as far as the load of the new
\* URL's notes, no note is tracked as displayed, no highlight is recorded
\* and the element cache holds no entry: nothing made for the old page is
\* there when the notes of the new page are discovered.
C17_TeardownOnUrlChange ==
  navLast.op = "urlChange" =>
    /\ displayedNotes = <<>>
    /\ noteHighlights = <<>>
    /\ elementCache = <<>>

\* C18: after a delete that the store refused, once the delete handler and
\* every pending fade-out timeout have run, the note's element is in the
\* page and the note is tracked as displayed.
C18_FailedDeleteReverted ==
  (navLast.op = "deleteFailed" /\ fadeTimers = <<>>) =>
    /\ Tracked(displayedNotes, navLast.noteId)
    /\ ElementOf(displayedNotes, navLast.noteId) \in noteElements

\* C22: once a note whose record has selection data is displayed, and the
\* selected text is in the text of the note's anchor element, a highlight
\* is recorded for the note and its wrapper is in the page; this holds for
\* records loaded from the store too.
C22_HighlightWhenDisplayed ==
  \A n \in NoteIds :
    (/\ Tracked(displayedNotes, n)
     /\ selection[n] # NoSelection
     /\ Includes(pageText, selection[n].text)) =>
      /\ HasHighlight(noteHighlights, n)
      /\ WrappersOf(content, n) # {}

\* C34: a delete request whose confirmation is declined changes nothing:
\* the note stays tracked and in the page, no fade-out timeout is set, the
\* page's text and highlights stay as they are, no delete is on its way to
\* the store and the store keeps the note; a delete goes to the store only
\* in the step of a confirmed request.
C34_DeclinedDeleteChangesNothing ==
  [][/\ (navLast' # navLast /\ navLast'.op = "declined") =>
          UNCHANGED <<displayedNotes, noteElements, fadeTimers, content, noteHighlights,
                      storedNotes, del, currentPageNotes>>
     /\ (del.pc = "idle" /\ del'.pc = "deleteNote") => navLast'.op = "delete"]_vars

\* the delete of a displayed note was declined while no delete was on its
\* way, and the note is in the page
C34_Witness ==
  /\ navLast.op = "declined"
  /\ Tracked(displayedNotes, navLast.noteId)
  /\ ElementOf(displayedNotes, navLast.noteId) \in noteElements
  /\ del = IdleDelete
  /\ navLast.noteId \in {storedNotes[url][k] : k \in 1..Len(storedNotes[url])}

\* a call of loadAndDisplayNotes finishes in this step
LoadCompletes == load.pc # "idle" /\ load'.pc = "idle"

\* C35: when loadAndDisplayNotes completes for a page, the current-page
\* note list holds exactly the notes the store holds for that URL.
C35_PageNotesAreStoredNotes ==
  [][LoadCompletes => currentPageNotes' = storedNotes'[load.url]]_vars

\* what the list holds instead when a load completes: nothing
C35_PageNotesEmptyAfterLoad ==
  [][LoadCompletes => currentPageNotes' = <<>>]_vars

\* no fade-out timeout is pending and no load or delete is in progress
DisplayQuiet == fadeTimers = <<>> /\ load.pc = "idle" /\ del.pc = "idle"

\* C36: once every pending fade-out timeout has run (and no load or delete
\* is under way), the displayed-notes map and the page agree: every note
\* element in the page is tracked, every tracked element is in the page,
\* and no note is tracked twice.
C36_MapAgreesWithPage ==
  DisplayQuiet =>
    /\ \A e \in noteElements : \E i \in 1..Len(displayedNotes) : displayedNotes[i].el = e
    /\ \A i \in 1..Len(displayedNotes) : displayedNotes[i].el \in noteElements
    /\ \A i, k \in 1..Len(displayedNotes) :
         displayedNotes[i].noteId = displayedNotes[k].noteId => i = k

\* the ids of the notes tracked as displayed, and of the notes the store
\* holds for a URL
TrackedIds(dn) == {dn[i].noteId : i \in 1..Len(dn)}
StoredIds(sn, u) == {sn[u][k] : k \in 1..Len(sn[u])}

\* the one call of loadAndDisplayNotes in progress finishes, and the URL
\* has changed since it began
StaleLoadCompletes == LoadCompletes /\ load.url # url'

\* C38: when the URL changed while loadAndDisplayNotes was in progress for
\* the previous URL, then once the loading has finished the notes displayed
\* are exactly those stored for the current URL.
C38_DisplayedForCurrentUrl ==
  [][StaleLoadCompletes =>
       TrackedIds(displayedNotes') = StoredIds(storedNotes', url')]_vars

(***************************************************************************)
(* SpecColor: sanitizeColor is called with a value.  The values are made   *)
(* from numbers and names, so that what a value stands for is known apart  *)
(* from its characters: expected is the color the value stands for when it *)
(* is a hex color, an rgb()/rgba() value in range or a listed name, and    *)
(* the default color otherwise.                                            *)
(***************************************************************************)
\* the decimal digits of n
RECURSIVE Dec(_)
Dec(n) == IF n < 10 THEN <<DigitChars[n + 1]>>
          ELSE Dec(n \div 10) \o <<DigitChars[(n % 10) + 1]>>

\* n in digits characters, zeros in front
RECURSIVE Padded(_, _)
Padded(n, digits) ==
  IF digits = 0 THEN <<>>
  ELSE Padded(n \div 10, digits - 1) \o <<DigitChars[(n % 10) + 1]>>

HexChar(n, upper) ==
  IF n < 10 THEN DigitChars[n + 1]
  ELSE IF upper THEN UpperChars[n - 9] ELSE LowerChars[n - 9]

toUpperCase(chars) ==
  [i \in 1..Len(chars) |->
     IF \E k \in 1..26 : LowerChars[k] = chars[i]
     THEN UpperChars[CHOOSE k \in 1..26 : LowerChars[k] = chars[i]]
     ELSE chars[i]]

StringValue(chars, form, valid, canon) ==
  [type |-> "string", chars |-> chars, form |-> form,
   expected |-> IF valid THEN canon ELSE DEFAULT_COLOR]

NonStrings ==
  {[type |-> t, chars |-> <<>>, form |-> "none", expected |-> DEFAULT_COLOR] :
     t \in {"undefined", "null", "number", "boolean", "object"}}
  \cup {StringValue(<<>>, "none", FALSE, <<>>)}

NibbleSamples ==
  {<<1, 2>>, <<15, 15, 15>>, <<0, 10, 5>>, <<1, 2, 3, 4>>, <<1, 2, 3, 4, 5>>,
   <<15, 15, 15, 3, 12, 13>>, <<1, 2, 3, 4, 5, 6, 7>>}

\* "#" and hex digits; without the "#", or with a "g" for the last digit
HexValues ==
  {LET digits == [i \in 1..Len(nibbles) |->
                    IF bad /\ i = Len(nibbles) THEN "g" ELSE HexChar(nibbles[i], upper)]
       chars == (IF hash THEN <<"#">> ELSE <<>>) \o digits
   IN StringValue(chars, "hex", hash /\ ~bad /\ Len(nibbles) \in {3, 6}, chars) :
     nibbles \in NibbleSamples, upper \in BOOLEAN, hash \in BOOLEAN, bad \in BOOLEAN}

ChannelSamples == {0, 7, 255, 256, 999, 1000}
Spaces == {<<>>, <<" ">>, <<"\t", " ">>}

\* rgb(r, g, b) with white space around the numbers, or with ";" behind
RgbValues ==
  {LET chars == <<"r", "g", "b", "(">> \o space
                \o (IF padded /\ r < 100 THEN Padded(r, 3) ELSE Dec(r))
                \o space \o <<",">> \o Dec(g) \o <<",">> \o space \o Dec(255)
                \o <<")">> \o suffix
   IN StringValue(chars, "rgb", r <= 255 /\ g <= 255 /\ suffix = <<>>, chars) :
     r \in ChannelSamples, g \in {0, 256}, padded \in BOOLEAN, space \in Spaces,
     suffix \in {<<>>, <<";">>}}

\* alpha values num / 10^digits
AlphaSamples ==
  {[num |-> 0, digits |-> 0], [num |-> 1, digits |-> 0], [num |-> 2, digits |-> 0],
   [num |-> 15, digits |-> 0], [num |-> 5, digits |-> 1], [num |-> 10, digits |-> 1],
   [num |-> 15, digits |-> 1], [num |-> 25, digits |-> 1], [num |-> 55, digits |-> 2],
   [num |-> 100, digits |-> 2], [num |-> 101, digits |-> 2]}

\* the number a written out: "0.5", ".5" (bare), "1." (point)
AlphaText(a, style) ==
  LET whole == a.num \div Pow10(a.digits)
      fraction == Padded(a.num % Pow10(a.digits), a.digits)
  IN IF a.digits = 0
     THEN Dec(whole) \o (IF style = "point" THEN <<".">> ELSE <<>>)
     ELSE (IF style = "bare" /\ whole = 0 THEN <<>> ELSE Dec(whole)) \o <<".">> \o fraction

\* rgba(r, 0, 0, a), or with no alpha, or with a letter for it
RgbaValues ==
  {LET chars == <<"r", "g", "b", "a", "(">> \o Dec(r) \o <<",", "0", ",", "0", ",">>
                \o space \o AlphaText(a, style) \o space \o <<")">>
   IN StringValue(chars, "rgba", r <= 255 /\ a.num <= Pow10(a.digits), chars) :
     r \in {0, 255, 256}, a \in AlphaSamples, style \in {"plain", "bare", "point"},
     space \in {<<>>, <<" ">>}}
  \cup
  {StringValue(<<"r", "g", "b", "a", "(", "0", ",", "0", ",", "0", ",">> \o token \o <<")">>,
               "rgba", FALSE, <<>>) :
     token \in {<<>>, <<".">>, <<"a">>, <<"-", "1">>, <<"1", ".", ".", "5">>}}

OtherNames == {<<"t", "e", "a", "l">>, <<"n", "a", "v", "y">>,
               <<"u", "r", "l", "(", "x", ")">>}

\* a color name in lower case, in upper case or with a capital, or with a
\* space behind
NameValues ==
  {LET chars == (IF style = "upper" THEN toUpperCase(name)
                 ELSE IF style = "capital"
                 THEN toUpperCase(SubSeq(name, 1, 1)) \o SubSeq(name, 2, Len(name))
                 ELSE name) \o suffix
   IN StringValue(chars, "name", name \in namedColors /\ suffix = <<>>, name) :
     name \in namedColors \cup OtherNames, style \in {"lower", "upper", "capital"},
     suffix \in {<<>>, <<" ">>}}

ColorInputs == NonStrings \cup HexValues \cup RgbValues \cup RgbaValues \cup NameValues

InitColor ==
  /\ InitDocument
  /\ InitSelectors
  /\ InitHlIdle
  /\ InitPosIdle
  /\ InitEditIdle
  /\ InitNavIdle
  /\ InitMainIdle
  /\ InitTimeIdle
  /\ color \in ColorInputs
  /\ colorLast = NoColorCall

\* sanitizeColor(color)
SanitizeColor ==
  /\ ~colorLast.called
  /\ \E r \in {sanitizeColor(color)} :
       colorLast' = [called |-> TRUE, result |-> r.result, threw |-> r.threw]
  /\ UNCHANGED <<color, domVars, selVars, hlVars, posVars, dragVars, editVars, navVars,
                 mainVars, timeVars>>

NextColor == SanitizeColor

SpecColor == InitColor /\ [][NextColor]_vars

\* C19: sanitizeColor returns its input when the input is a 3- or 6-digit
\* hex color, an rgb() or rgba() value whose channels are at most 255 and
\* whose alpha is at most 1, returns the name in lower case when the input
\* is one of the listed color names, returns the default color for every
\* other value, and never throws.
C19_SanitizeColor ==
  colorLast.called =>
    /\ ~colorLast.threw
    /\ colorLast.result = color.expected
    /\ (colorLast.result = color.chars /\ color.chars # DEFAULT_COLOR)
         => color.form \in {"hex", "rgb", "rgba", "name"}

\* sanitizeColor was called with an rgba() value in range and returned it
C19_Witness ==
  /\ colorLast.called
  /\ color.form = "rgba"
  /\ colorLast.result = color.chars
  /\ color.expected = color.chars

(***************************************************************************)
(* SpecInit: the content script starts on a page where some of the         *)
(* modules it requires may not have loaded.                                *)
(***************************************************************************)
InitMain ==
  /\ InitDocument
  /\ InitSelectors
  /\ InitHlIdle
  /\ InitPosIdle
  /\ InitEditIdle
  /\ InitNavIdle
  /\ InitColorIdle
  /\ InitTimeIdle
  /\ main = IdleMain
  /\ modules \in SUBSET requiredModules

MainFrame ==
  UNCHANGED <<modules, domVars, selVars, hlVars, posVars, dragVars, editVars, navVars,
              colorVars, timeVars>>

\* the timeout that calls initializeWithRetry runs, or the delay it awaits
\* before another attempt is over
InitializeAttempt ==
  /\ main.pc \in {"ready", "delay"}
  /\ main' = initializeWithRetry(main, modules)
  /\ MainFrame

\* loadAndDisplayNotes resolves in initializeWebNotes
LoadAndDisplayDone ==
  /\ main.pc = "loading"
  /\ main' = [main EXCEPT !.isInitialized = TRUE, !.pc = "returned"]
  /\ MainFrame

\* the timeout set after a failed initialization runs cleanup()
CleanupTimeout ==
  /\ main.cleanupTimers > 0
  /\ main' = [cleanup(main) EXCEPT !.cleanupTimers = @ - 1]
  /\ MainFrame

NextInit ==
  \/ InitializeAttempt
  \/ LoadAndDisplayDone
  \/ CleanupTimeout

SpecInit == InitMain /\ [][NextInit]_vars

\* C20: when a required module is missing, initializeWithRetry does not
\* finish before it has made MAX_INITIALIZATION_ATTEMPTS attempts to
\* initialize.
C20_RetriesWhenModuleAbsent ==
  (main.pc \in {"returned", "failed"} /\ ~(requiredModules \subseteq modules))
    => main.calls = MAX_INITIALIZATION_ATTEMPTS

(***************************************************************************)
(* SpecCache: a page whose paragraph <p id="a"> is looked up under many    *)
(* selector pairs: the CSS selector is the paragraph's, the XPath differs  *)
(* from pair to pair, so every pair has a cache key of its own and all     *)
(* resolve to the paragraph.  The pairs are numbered in the order of their *)
(* first lookup.                                                           *)
(***************************************************************************)
MaxCacheKeys == 510

KeySelector(i) ==
  [css |-> generateCSSSelector(Paragraph), xpath |-> <<[tag |-> "p", idx |-> i]>>]

\* the number of the pair an entry was cached under
PairOf(entry) == entry.key[2][1].idx

\* no lookup yet; used is the number of pairs looked up so far
NoCacheCall ==
  [op |-> "none", el |-> NoElement, key |-> <<>>, before |-> <<>>, used |-> 0]

PairsUsed == last.used

InitCache ==
  /\ InitPage
  /\ elementCache = <<>>
  /\ anchor = EmptySelector
  /\ genFor = NoElement
  /\ last = NoCacheCall
  /\ InitHlIdle /\ InitPosIdle /\ InitAppIdle

FindPair(i) ==
  /\ \E r \in {findElementBySelector(elementCache, KeySelector(i))} :
       /\ elementCache' = r.cache
       /\ last' = [op |-> "find", el |-> r.el, key |-> cacheKey(KeySelector(i)),
                   before |-> elementCache,
                   used |-> IF i > PairsUsed THEN i ELSE PairsUsed]
  /\ UNCHANGED <<domVars, anchor, genFor>>
  /\ UNCHANGED notDomVars

\* findElementBySelector for a pair never looked up before
FindNew ==
  /\ PairsUsed < MaxCacheKeys
  /\ FindPair(PairsUsed + 1)

\* findElementBySelector for a pair looked up before: the first pair, the
\* oldest pair in the cache or the newest
FindAgain ==
  /\ elementCache # <<>>
  /\ \E i \in {1, PairOf(Head(elementCache)), PairsUsed} : FindPair(i)

NextCache ==
  \/ FindNew
  \/ FindAgain

SpecCache == InitCache /\ [][NextCache]_vars

\* the lookup found a live entry under its key
CacheHit ==
  /\ last.op = "find"
  /\ CacheHas(last.before, last.key)
  /\ Contains(CacheGet(last.before, last.key))

\* C23: the element cache never holds more than CACHE_SIZE_LIMIT entries; an
\* insert into a full cache drops exactly the oldest quarter of the entries,
\* in insertion order, and then adds the new entry at the end; a cache hit
\* leaves the entries and their order as they were.
C23_BoundedCache ==
  /\ Len(elementCache) <= CACHE_SIZE_LIMIT
  /\ CacheHit => elementCache = last.before
  /\ (last.op = "find" /\ ~CacheHit) =>
       LET entry == [key |-> last.key, el |-> last.el]
           quarter == CACHE_SIZE_LIMIT \div 4
       IN IF Len(last.before) = CACHE_SIZE_LIMIT
          THEN elementCache =
                 Append(SubSeq(last.before, quarter + 1, Len(last.before)), entry)
          ELSE elementCache = Append(last.before, entry)

\* an insert found the cache full
C23_Witness ==
  /\ last.op = "find"
  /\ ~CacheHit
  /\ Len(last.before) = CACHE_SIZE_LIMIT
  /\ Len(elementCache) = CACHE_SIZE_LIMIT - (CACHE_SIZE_LIMIT \div 4) + 1

(***************************************************************************)
(* SpecResolve: findElementBySelector is called with a stored selector     *)
(* pair on a page.  The page has the paragraph and, in some documents, a   *)
(* second element before or after it; the pairs are made from CSS          *)
(* selectors and XPaths that match, match nothing, or are invalid.         *)
(***************************************************************************)
Other == Paragraph + 1

ResolveDocs ==
  {[status |-> [n \in AllNodes |->
                  IF n \in {DocEl, Body, Paragraph} \/ (n = Other /\ t # "")
                  THEN "attached" ELSE "unused"],
    kids |-> [n \in AllNodes |->
                IF n = DocEl THEN <<Body>>
                ELSE IF n = Body
                THEN (IF t = "" THEN <<Paragraph>>
                      ELSE IF first THEN <<Other, Paragraph>> ELSE <<Paragraph, Other>>)
                ELSE <<>>],
    tag |-> [n \in AllNodes |->
               IF n = DocEl THEN "html" ELSE IF n = Body THEN "body"
               ELSE IF n = Paragraph THEN "p" ELSE IF n = Other THEN t ELSE ""],
    elId |-> [n \in AllNodes |->
                IF n = Paragraph THEN d ELSE IF n = Other /\ t # "" THEN "a" ELSE ""],
    cls |-> [n \in AllNodes |-> <<>>]] :
   t \in {""} \cup Tags, first \in BOOLEAN, d \in Ids}

CssStep(t, d) == [tag |-> t, id |-> d, classes |-> <<>>, nth |-> 0]

StoredCss ==
  {<<>>, <<CssStep("p", "a")>>, <<CssStep("p", "")>>, <<CssStep("div", "")>>,
   <<CssStep("body", ""), CssStep("p", "")>>, <<CssStep("o:p", "")>>}

XPathStep(t, i) == [tag |-> t, idx |-> i]

StoredXPaths ==
  {<<>>, <<XPathStep("body", 1), XPathStep("p", 1)>>,
   <<XPathStep("body", 1), XPathStep("p", 2)>>,
   <<XPathStep("body", 1), XPathStep("div", 1)>>,
   <<XPathStep("body", 1), XPathStep("o:p", 1)>>}

NoResolveCall == [op |-> "none", el |-> NoElement, hit |-> FALSE]

InitResolve ==
  /\ \E doc \in ResolveDocs :
       /\ status = doc.status
       /\ kids = doc.kids
       /\ tag = doc.tag
       /\ elId = doc.elId
       /\ cls = doc.cls
  /\ elementCache = <<>>
  /\ anchor \in [css : StoredCss, xpath : StoredXPaths]
  /\ genFor = NoElement
  /\ last = NoResolveCall
  /\ InitHlIdle /\ InitPosIdle /\ InitAppIdle

\* findElementBySelector(selector)
Resolve ==
  /\ \E r \in {findElementBySelector(elementCache, anchor)} :
       /\ elementCache' = r.cache
       /\ last' = [op |-> "find", el |-> r.el,
                   hit |-> /\ CacheHas(elementCache, cacheKey(anchor))
                           /\ Contains(CacheGet(elementCache, cacheKey(anchor)))]
  /\ UNCHANGED <<domVars, anchor, genFor>>
  /\ UNCHANGED notDomVars

NextResolve ==
  \/ Resolve
  \/ ClearCache

SpecResolve == InitResolve /\ [][NextResolve]_vars

\* the first element in document order of a set of attached elements
FirstOf(S) == CHOOSE n \in S : \A m \in S : IndexIn(DocOrder, n) <= IndexIn(DocOrder, m)

\* the elements the primary selector matches; none when the query raises an
\* error
PrimaryMatches ==
  IF anchor.css = <<>> \/ SyntaxError(anchor.css) THEN {}
  ELSE {n \in Attached : CssMatches(n, anchor.css, Len(anchor.css))}

\* the elements the fallback selector matches; none when it is not valid
FallbackMatches ==
  IF ~validateXPath(anchor.xpath) THEN {}
  ELSE {n \in Attached : XPathMatches(n, anchor.xpath, Len(anchor.xpath))}

\* C24: on a cache miss findElementBySelector returns the match of the
\* primary selector when it has one, else the match of the fallback selector
\* when that is valid and matches, else null; a primary selector whose query
\* raises an error counts as having no match.
C24_PrimaryThenFallback ==
  (last.op = "find" /\ ~last.hit) =>
    last.el = IF PrimaryMatches # {} THEN FirstOf(PrimaryMatches)
              ELSE IF FallbackMatches # {} THEN FirstOf(FallbackMatches)
              ELSE NoElement

\* the primary selector raised an error and the fallback selector matched
C24_Witness ==
  /\ last.op = "find"
  /\ ~last.hit
  /\ SyntaxError(anchor.css)
  /\ last.el # NoElement
  /\ last.el \in FallbackMatches

(***************************************************************************)
(* SpecCap: a page with very many highlighted notes.  The text of one      *)
(* element is followed node by node; notes n1 and n2 were made from        *)
(* selections in it, and n1 was highlighted first.  All other notes were   *)
(* made from selections in other elements of the page: their wrappers are  *)
(* not below the element followed, their map entries are in the one map.   *)
(***************************************************************************)
\* notes highlighted elsewhere on the page, over the run
MaxElsewhere == 1001

\* the map entry of the i-th note highlighted elsewhere
Elsewhere(i) ==
  [noteId |-> "m" \o ToString(i), element |-> MaxWrappers + i, originalText |-> <<"a">>]

IsElsewhere(entry) == entry.element > MaxWrappers

\* how many notes were highlighted elsewhere so far: the index of the
\* newest such entry
ElsewhereUsed ==
  IF \A i \in 1..Len(noteHighlights) : ~IsElsewhere(noteHighlights[i]) THEN 0
  ELSE noteHighlights[CHOOSE i \in 1..Len(noteHighlights) :
                        /\ IsElsewhere(noteHighlights[i])
                        /\ \A j \in (i + 1)..Len(noteHighlights) :
                             ~IsElsewhere(noteHighlights[j])].element - MaxWrappers

NoteOf(n) ==
  [id |-> n, text |-> selection[n].text,
   contextBefore |-> selection[n].contextBefore,
   contextAfter |-> selection[n].contextAfter]

NoCapCall ==
  [op |-> "none", noteId |-> "", ok |-> FALSE, before |-> <<>>, inPage |-> {}]

InitCap ==
  /\ InitDocument
  /\ InitSelectors
  /\ InitPosIdle
  /\ InitAppIdle
  /\ targetAttached = TRUE
  /\ pageText = <<"a", "b", "a">>
  /\ selection \in [NoteIds -> {captureSelectionData(<<TextNode(pageText)>>, r[1], r[2]) :
                                  r \in {<<0, 1>>, <<1, 1>>, <<1, 2>>}}]
  /\ \E k \in {MAX_HIGHLIGHTS - 2, MAX_HIGHLIGHTS - 1} :
     \E first \in {createTextHighlight(<<TextNode(pageText)>>, <<>>, TRUE, NoteOf("n1"), 1)} :
       /\ content = first.content
       /\ noteHighlights = first.noteHighlights \o [i \in 1..k |-> Elsewhere(i)]
  /\ hlLast = NoCapCall

\* the notes with a wrapper below the element followed
InPage == {n \in NoteIds : WrappersOf(content, n) # {}}

\* createTextHighlight(noteData) for a note of the element followed
CreateOnPage ==
  /\ WrapperIds \ UsedWrappers # {}
  /\ \E n \in NoteIds :
     \E r \in {createTextHighlight(content, noteHighlights, targetAttached, NoteOf(n),
                                   CHOOSE x \in WrapperIds \ UsedWrappers :
                                     \A y \in WrapperIds \ UsedWrappers : x <= y)} :
       /\ content' = r.content
       /\ noteHighlights' = r.noteHighlights
       /\ hlLast' = [op |-> "create", noteId |-> n, ok |-> r.ok,
                     before |-> noteHighlights, inPage |-> InPage]
  /\ UNCHANGED <<targetAttached, pageText, selection>>
  /\ UNCHANGED notHlVars

\* createTextHighlight(noteData) for a new note of another element: its
\* wrapper is put there, its entry is set and cleanupHighlights runs
CreateElsewhere ==
  /\ ElsewhereUsed < MaxElsewhere
  /\ \E e \in {Elsewhere(ElsewhereUsed + 1)} :
     \E r \in {cleanupHighlights(content,
                  SetHighlight(noteHighlights, e.noteId, e.element, e.originalText))} :
       /\ content' = r.content
       /\ noteHighlights' = r.noteHighlights
       /\ hlLast' = [op |-> "create", noteId |-> e.noteId, ok |-> TRUE,
                     before |-> noteHighlights, inPage |-> InPage]
  /\ UNCHANGED <<targetAttached, pageText, selection>>
  /\ UNCHANGED notHlVars

NextCap ==
  \/ CreateOnPage
  \/ CreateElsewhere

SpecCap == InitCap /\ [][NextCap]_vars

\* the entries before the call without the note's own, in map order
OthersBefore == DeleteHighlight(hlLast.before, hlLast.noteId)

\* how many entries over the cap the map held when the new entry was set
Excess == Len(OthersBefore) + 1 - MAX_HIGHLIGHTS

ClampedAndProposed ==
  /\ posLast.op = "visibility"
  /\ posLast.ran
  /\ posLast.requested
  /\ IsAnchored(noteData)

\* C32: after ensureNoteVisibility clamped an anchored note and proposed
\* the back-computed offset, the next placement of the note by
\* repositionAllNotes, under the same layout and viewport, puts the note
\* at the clamped position.
C32_RepositionKeepsClamp ==
  [][(ClampedAndProposed /\ posLast'.op = "reposition") =>
       (noteEl'.left = noteEl.left /\ noteEl'.top = noteEl.top)]_vars

\* the same for a note whose record holds offsets, as the record does that
\* createNoteAtCoords puts in the list repositionAllNotes reads
C32_RepositionOfCreatedNoteKeepsClamp ==
  [][(/\ ClampedAndProposed
      /\ ~Nullish(noteData.offsetX)
      /\ ~Nullish(noteData.offsetY)
      /\ posLast'.op = "reposition") =>
       (noteEl'.left = noteEl.left /\ noteEl'.top = noteEl.top)]_vars

\* the record the store holds once it has applied the proposed offset
\* reproduces the clamped position at the anchor
C32_StoredOffsetReproducesClamp ==
  ClampedAndProposed =>
    \E found \in {findElementBySelector(elementCache, SelectorOf(noteData))} :
    \E p \in {calculateNotePosition(ApplyUpdate(noteData, lastUpdate), found.el,
                                    layout, win)} :
      p.ok /\ p.x = noteEl.left /\ p.y = noteEl.top

(***************************************************************************)
(* SpecResize: the window is resized in bursts while a note is on the      *)
(* page.  The resize listener is the debounced handleWindowResize; the     *)
(* timeout it leaves runs repositionAllNotes.  resize also keeps, for the  *)
(* claims: the number of resize events, the time since the last one, the   *)
(* gap between the last two, the runs of repositionAllNotes between the    *)
(* last two events and since the last one, the time after the last event   *)
(* at which the last run came, and whether an event still waits for a run. *)
(***************************************************************************)
MaxResizes == 3
ResizeWidths == {100, 120}
\* the longest time the model counts after a resize event
ResizeQuiet == RESIZE_THROTTLE_DELAY + MaxLateMs

InitResize ==
  /\ InitPos
  /\ noteEl.width = 30 /\ noteEl.height = 30
  /\ layout[Paragraph].left = 40
  /\ noteData.offsetX = 10 /\ noteData.offsetY = 10 /\ noteData.x = Absent

ResizeFrame ==
  UNCHANGED <<domVars, anchor, genFor, last, hlVars, dragVars, editVars, navVars,
              colorVars, mainVars, monitor>>

\* the window fires resize: the listener handleWindowResize runs
WindowResize ==
  /\ resize.events < MaxResizes
  /\ \E width \in ResizeWidths : win' = [win EXCEPT !.width = width]
  /\ resize' = [handleWindowResize(resize) EXCEPT
                  !.events = @ + 1, !.gap = resize.sinceEvent, !.sinceEvent = 0,
                  !.runsBetween = resize.runsSince, !.runsSince = 0,
                  !.unanswered = TRUE]
  /\ UNCHANGED <<elementCache, layout, noteData, noteEl, displayed, dragTarget, visTimers,
                 lastUpdate, posLast>>
  /\ ResizeFrame

\* the clock goes on
ResizeTimePasses ==
  /\ \E ms \in TimeSteps :
       /\ CanElapse(resize.timers, ms)
       /\ resize' = [resize EXCEPT !.timers = Elapse(@, ms),
                                   !.sinceEvent = Min(ResizeQuiet, @ + ms)]
  /\ UNCHANGED <<elementCache, posVars>>
  /\ ResizeFrame

\* a timeout of the debounced handler is due and runs: repositionAllNotes()
ResizeTimeout ==
  /\ visTimers < MaxTimers
  /\ \E i \in Due(resize.timers) :
       resize' = [resize EXCEPT !.timers = RemoveIndex(@, i), !.runsSince = @ + 1,
                                !.ranAfter = resize.sinceEvent, !.unanswered = FALSE]
  /\ \E r \in {repositionAllNotes(noteData, noteEl, elementCache, layout, win)} :
       /\ noteEl' = r.el
       /\ elementCache' = r.cache
       /\ visTimers' = visTimers + r.timers
       /\ posLast' = [NoPosCall EXCEPT !.op = "reposition", !.target = r.target,
                                       !.ran = TRUE]
  /\ UNCHANGED <<win, layout, noteData, displayed, dragTarget, lastUpdate>>
  /\ ResizeFrame

NextResize ==
  \/ (~displayed /\ DisplayNote)
  \/ VisibilityCheck
  \/ WindowResize
  \/ ResizeTimePasses
  \/ ResizeTimeout

SpecResize == InitResize /\ [][NextResize]_vars

\* the clock goes on and the event loop runs the timeouts that are due
SpecResizeLive ==
  /\ SpecResize
  /\ WF_vars(ResizeTimePasses)
  /\ WF_vars(ResizeTimeout)
  /\ WF_vars(VisibilityCheck)

\* no run between two events of a burst, at most one run after the last
\* event, and that run no sooner than the delay after it
OneRunAfterBurst ==
  /\ (resize.events >= 2 /\ resize.gap < RESIZE_THROTTLE_DELAY) => resize.runsBetween = 0
  /\ resize.runsSince <= 1
  /\ resize.runsSince = 1 => resize.ranAfter >= RESIZE_THROTTLE_DELAY

\* C33: in a burst of resize events, each less than RESIZE_THROTTLE_DELAY
\* after the one before, repositionAllNotes does not run between the
\* events and runs once after the last one, RESIZE_THROTTLE_DELAY or more
\* after it; and every resize event is eventually followed by a run of
\* repositionAllNotes.
C33_DebouncedResize ==
  /\ []OneRunAfterBurst
  /\ (resize.unanswered ~> ~resize.unanswered)

\* a burst of three events, each within the delay of the one before, was
\* answered by its one run
C33_Witness ==
  /\ resize.events = 3
  /\ resize.gap > 0
  /\ resize.gap < RESIZE_THROTTLE_DELAY
  /\ resize.runsBetween = 0
  /\ resize.runsSince = 1
  /\ posLast.op = "reposition"

(***************************************************************************)
(* SpecReanchor: a page with two elements a note can be anchored to,       *)
(* <body><p id="a"></p><div></div></body>, and a note anchored to the      *)
(* paragraph.  The user drags the note; the visibility checks that         *)
(* displayNote and finishDrag schedule run.                                *)
(***************************************************************************)
ReanchorBoxes ==
  [n \in AllNodes |->
     IF n \in {DocEl, Body} THEN DragPageBox
     ELSE IF n = Paragraph THEN [left |-> 20, top |-> 140, width |-> 60, height |-> 60]
     ELSE IF n = Other THEN [left |-> 130, top |-> 130, width |-> 60, height |-> 60]
     ELSE [left |-> 0, top |-> 0, width |-> 0, height |-> 0]]

InitReanchor ==
  /\ status = [n \in AllNodes |->
                 IF n \in {DocEl, Body, Paragraph, Other} THEN "attached" ELSE "unused"]
  /\ kids = [n \in AllNodes |->
               IF n = DocEl THEN <<Body>>
               ELSE IF n = Body THEN <<Paragraph, Other>> ELSE <<>>]
  /\ tag = [n \in AllNodes |->
              IF n = DocEl THEN "html" ELSE IF n = Body THEN "body"
              ELSE IF n = Paragraph THEN "p" ELSE IF n = Other THEN "div" ELSE ""]
  /\ elId = [n \in AllNodes |-> IF n = Paragraph THEN "a" ELSE ""]
  /\ cls = [n \in AllNodes |-> <<>>]
  /\ InitSelectors
  /\ InitHlIdle
  /\ InitAppIdle
  /\ win \in {[width |-> v.width, height |-> v.height, scrollX |-> 0, scrollY |-> 0] :
              v \in DragViewports}
  /\ layout = ReanchorBoxes
  /\ noteData \in {r \in DragNoteRecords : IsAnchored(r)}
  /\ noteEl \in {[inDocument |-> FALSE, left |-> 0, top |-> 0, width |-> nw, height |-> nw] :
                 nw \in DragNoteSizes}
  /\ displayed = FALSE
  /\ dragTarget = NoElement
  /\ visTimers = 0
  /\ lastUpdate = NoRequest
  /\ posLast = NoPosCall
  /\ drag = IdleDrag
  /\ listeners = FALSE
  /\ userSelect = ""
  /\ dropTarget = NoElement
  /\ pointer = [x |-> 0, y |-> 0]
  /\ dragCount = 0

NextReanchor ==
  \/ DisplayNote
  \/ VisibilityCheck
  \/ MouseDown
  \/ MouseMove
  \/ MouseUp

SpecReanchor == InitReanchor /\ [][NextReanchor]_vars

\* the record the store holds for the note: the record the page got from
\* it, with the fields of the last update applied
StoredRecord == ApplyUpdate(noteData, lastUpdate)

\* this step writes an offset to the store
WritesOffset ==
  /\ posLast'.op \in {"visibility", "up"}
  /\ posLast'.requested
  /\ "offsetX" \in lastUpdate'.keys
  /\ ~Nullish(lastUpdate'.offsetX)

\* C37: every offset written to the store for the note is measured from
\* the element that the anchor selectors stored for the note at that time
\* identify: the selectors of the same request when it carries selectors,
\* else those the store holds.
C37_OffsetFromStoredAnchor ==
  [][WritesOffset =>
       \E anchorEl \in {lookupInDocument(
                           IF "cssSelector" \in lastUpdate'.keys
                           THEN SelectorOf(lastUpdate')
                           ELSE SelectorOf(StoredRecord))} :
         /\ anchorEl # NoElement
         /\ lastUpdate'.offsetX = noteEl'.left - layout[anchorEl].left
         /\ lastUpdate'.offsetY = noteEl'.top - layout[anchorEl].top]_vars

\* the same for the offsets that finishDrag writes
C37_DragOffsetFromStoredAnchor ==
  [][(WritesOffset /\ posLast'.op = "up") =>
       \E anchorEl \in {lookupInDocument(
                           IF "cssSelector" \in lastUpdate'.keys
                           THEN SelectorOf(lastUpdate')
                           ELSE SelectorOf(StoredRecord))} :
         /\ anchorEl # NoElement
         /\ lastUpdate'.offsetX = noteEl'.left - layout[anchorEl].left
         /\ lastUpdate'.offsetY = noteEl'.top - layout[anchorEl].top]_vars

(***************************************************************************)
(* SpecMonitor: the page changes its URL, checkUrlChange runs from the     *)
(* interval, the navigation listeners and the mutation observer, the clock *)
(* goes on and the timeouts of checkUrlChange run.                         *)
(***************************************************************************)
MaxUrlChanges == 3

\* startUrlMonitoring has run at the first URL
InitMonitor ==
  /\ InitDocument
  /\ InitSelectors
  /\ InitHlIdle
  /\ InitPosIdle
  /\ InitEditIdle
  /\ InitColorIdle
  /\ InitMainIdle
  /\ url = "u1"
  /\ storedNotes = [u \in Urls |-> <<>>]
  /\ displayedNotes = <<>>
  /\ noteElements = {}
  /\ elCount = 0
  /\ fadeTimers = <<>>
  /\ load = IdleLoad
  /\ del = IdleDelete
  /\ navLast = NoNavCall
  /\ navCount = 0
  /\ currentPageNotes = <<>>
  /\ resize = IdleResize
  /\ monitor = [IdleMonitor EXCEPT !.currentUrl = "u1", !.sinceChange = MonitorQuiet]

MonitorFrame ==
  UNCHANGED <<domVars, anchor, genFor, last, elementCache, hlVars, posVars, dragVars,
              editVars, storedNotes, displayedNotes, noteElements, elCount, fadeTimers,
              load, del, navLast, currentPageNotes, colorVars, mainVars, resize>>

\* the page goes to another URL
Navigate ==
  /\ navCount < MaxUrlChanges
  /\ \E u \in Urls \ {url} : url' = u
  /\ navCount' = navCount + 1
  /\ UNCHANGED monitor
  /\ MonitorFrame

\* the interval, a navigation listener or the mutation observer runs
\* checkUrlChange() and it finds the URL changed
CheckUrlChange ==
  /\ url # monitor.currentUrl
  /\ monitor' = [checkUrlChange(monitor, url) EXCEPT
                   !.changes = @ + 1, !.gap = monitor.sinceChange,
                   !.notifiedBetween = monitor.notifiedSince, !.notifiedSince = 0,
                   !.unanswered = TRUE,
                   !.sameTime = @ \/ (monitor.changes >= 1 /\ monitor.sinceChange = 0)]
  /\ UNCHANGED <<url, navCount>>
  /\ MonitorFrame

\* the clock goes on
MonitorTimePasses ==
  /\ \E ms \in TimeSteps :
       /\ CanElapse(monitor.timers, ms)
       /\ monitor' = [monitor EXCEPT !.timers = Elapse(@, ms),
                                     !.sinceChange = Min(MonitorQuiet, @ + ms)]
  /\ UNCHANGED <<url, navCount>>
  /\ MonitorFrame

\* a timeout of checkUrlChange is due and runs
DebounceTimeout ==
  /\ \E i \in Due(monitor.timers) :
       monitor' = [checkUrlChangeTimeout([monitor EXCEPT !.timers = RemoveIndex(@, i)],
                                         monitor.timers[i])
                   EXCEPT !.late = @ \/ monitor.timers[i].left < 0]
  /\ UNCHANGED <<url, navCount>>
  /\ MonitorFrame

NextMonitor ==
  \/ Navigate
  \/ CheckUrlChange
  \/ MonitorTimePasses
  \/ DebounceTimeout

SpecMonitor == InitMonitor /\ [][NextMonitor]_vars

\* the interval runs checkUrlChange, the clock goes on and the event loop
\* runs the timeouts that are due
SpecMonitorLive ==
  /\ SpecMonitor
  /\ WF_vars(CheckUrlChange)
  /\ WF_vars(MonitorTimePasses)
  /\ WF_vars(DebounceTimeout)

\* no notification between two changes of a burst, at most one after the
\* last change, and that one with the URL of the last change as newUrl
OneNotificationAfterBurst ==
  /\ (monitor.changes >= 2 /\ monitor.gap < DEBOUNCE_DELAY) => monitor.notifiedBetween = 0
  /\ monitor.notifiedSince <= 1
  /\ monitor.notifiedSince >= 1 => monitor.newUrl = monitor.currentUrl

\* a detected change is followed by a notification with the URL of the
\* page at that time as newUrl
ChangeIsNotified ==
  monitor.unanswered ~> (monitor.notifiedSince >= 1 /\ monitor.newUrl = url)

\* C39: in a burst of URL changes, each detected less than DEBOUNCE_DELAY
\* after the one before, the callbacks are not notified between the
\* changes and are notified once after the last one, with the final URL as
\* newUrl; and every detected change is eventually followed by a
\* notification whose newUrl is the URL current at that time.
C39_DebouncedNotification ==
  /\ []OneNotificationAfterBurst
  /\ ChangeIsNotified

\* the same for the runs in which every timeout ran when it was due and
\* the clock went on between two detected changes
C39_DebouncedWhenOnTime ==
  []((~monitor.late /\ ~monitor.sameTime) => OneNotificationAfterBurst)

\* the same for the runs in which every timeout ran when it was due
C39_DebouncedWhenPunctual ==
  [](~monitor.late => OneNotificationAfterBurst)

\* the same for the runs in which the clock went on between two detected
\* changes
C39_DebouncedWhenApart ==
  [](~monitor.sameTime => OneNotificationAfterBurst)

\* a burst of two changes was answered by one notification
C39_OnTimeWitness ==
  /\ ~monitor.late
  /\ ~monitor.sameTime
  /\ monitor.changes >= 2
  /\ monitor.gap > 0
  /\ monitor.gap < DEBOUNCE_DELAY
  /\ monitor.notifiedSince = 1
  /\ monitor.timers = <<>>

(***************************************************************************)
(* Claims about the element a lookup returns (SpecDom).                    *)
(***************************************************************************)

\* C40: the element findElementBySelector returns is the one the anchor
\* matches in the document at the time of the call, the first match of the
\* primary selector or, when that has none, of the fallback selector, also
\* when it is served from the cache after the page changed the document.
C40_ResultMatchesAnchor ==
  last.op = "find" => last.el = lookupInDocument(anchor)

\* the same for a lookup that finds no entry under the anchor's key
C40_UncachedResultMatchesAnchor ==
  [][(last'.op = "find" /\ ~CacheHas(elementCache, cacheKey(anchor)))
       => last'.el = lookupInDocument(anchor)]_vars

\* the weaker statement: the element returned matches the primary or the
\* fallback selector, first match or not
C40_ResultMatchesSomeSelector ==
  (last.op = "find" /\ last.el # NoElement) =>
    \/ /\ anchor.css # <<>>
       /\ ~SyntaxError(anchor.css)
       /\ CssMatches(last.el, anchor.css, Len(anchor.css))
    \/ /\ validateXPath(anchor.xpath)
       /\ XPathMatches(last.el, anchor.xpath, Len(anchor.xpath))

\* a lookup served from the cache returned the element the anchor matches
C40_CachedMatchReached ==
  /\ last.op = "find"
  /\ CacheHas(elementCache, cacheKey(anchor))
  /\ last.el # NoElement
  /\ last.el = lookupInDocument(anchor)

====
